---- MODULE Spec2Model ----
(***************************************************************************)
(* Model of the kubesleuth operator's diagnosis engine:                    *)
(*   internal/controller/podsleuth_controller.go  (Reconcile, the cache)   *)
(*   internal/controller/log_analysis.go          (analyzeLogs, merge)     *)
(*   internal/web/server.go                       (handleForceRefresh)     *)
(*                                                                         *)
(* Time is counted in ticks of 100ms (time.Sleep(1100ms) is 11 ticks,      *)
(* one second is 10 ticks).  Pointers to LogAnalysisResult objects are     *)
(* object ids into `heap`; 0 is the nil pointer.  An optional (pointer or  *)
(* omitted) field is a sequence: <<>> for nil, <<v>> for a value.          *)
(* A nil Go map reads as the empty map and is allocated by the first Put,  *)
(* so analysisCache starts as the empty function.                          *)
(*                                                                         *)
(* Five specifications:                                                    *)
(*   Spec       Reconcile calls (one at a time, the controller runs one    *)
(*              worker), the cluster and the dashboard;                    *)
(*   SpecGroups Reconcile calls for two PodSleuth resources that select    *)
(*              different pods and cache with the default TTL;             *)
(*   SpecCache  the three cache methods called in any order;               *)
(*   SpecLock   the cache methods called by concurrent goroutines, one     *)
(*              statement at a time, under analysisCacheMux;               *)
(*   SpecAnalysis  analyzeLogs one method at a time, and the functions of  *)
(*              log_analysis.go on their own.                              *)
(***************************************************************************)
EXTENDS Integers, Sequences, FiniteSets, TLC

VARIABLES
    now,            \* wall clock (time.Now()), in ticks of 100ms
    pods,           \* the cluster's pods: name in AllPods -> pod status
    annotations,    \* PodSleuth name -> metadata.annotations
    podSleuthSpec,  \* PodSleuth name -> spec
    analysisCache,  \* PodSleuthReconciler.analysisCache: key -> CachedAnalysisResult
    heap,           \* LogAnalysisResult objects: id -> value
    pass,           \* the Reconcile call in flight: its position and local variables
    lastStep,       \* what the last step did (which branches of the code it took)
    lastPut,        \* key -> the arguments of the last setCachedAnalysis under that key
    everCachedAt,   \* p -> latest analyzedAt of any result ever cached for p (ZeroTime if none)
    lastRun,        \* p -> whether the last log-analysis run on p was a cache hit, the
                    \*      timestamps of what it reported, and the time of the last forced
                    \*      analysis of p (ZeroTime if none)
    mux,            \* analysisCacheMux: [readers, writer]
    threads         \* goroutines calling the cache methods step by step

vars == <<now, pods, annotations, podSleuthSpec, analysisCache, heap, pass,
          lastStep, lastPut, everCachedAt, lastRun, mux, threads>>

---------------------------------------------------------------------------
(* Bounds of the model *)

MaxTime == 11
MaxRestart == 1
TickStep == 5
ShortTTL == 5
MaxLines == 21

(* Program constants, in ticks of 100ms *)

SleepTicks == 11
DefaultCacheTTL == 3000
OneSecond == 10
ZeroTime == -1

---------------------------------------------------------------------------
(* Small helpers *)

Min(a, b) == IF a < b THEN a ELSE b

Range(s) == {s[i] : i \in 1..Len(s)}

Take(s, n) == SubSeq(s, 1, Min(n, Len(s)))

Restrict(f, S) == IF S = {} THEN <<>> ELSE [x \in S |-> f[x]]

Put1(f, k, v) == [x \in DOMAIN f \cup {k} |-> IF x = k THEN v ELSE f[x]]

---------------------------------------------------------------------------
(* The cluster: pods *)

AllPods == <<"p1", "p2">>

PodMeta ==
    [p1 |-> [Namespace |-> "ns", Name |-> "web", UID |-> "u1"],
     p2 |-> [Namespace |-> "ns", Name |-> "db",  UID |-> "u2"]]

ContainerStatus(name, rc) == [Name |-> name, RestartCount |-> rc]

ReadyCondition(st) == [Type |-> "Ready", Status |-> st]

InitialPods ==
    [p1 |-> [ContainerStatuses     |-> <<ContainerStatus("app", 0)>>,
             InitContainerStatuses |-> <<ContainerStatus("init", 0)>>,
             Conditions            |-> <<ReadyCondition("False")>>],
     p2 |-> [ContainerStatuses     |-> <<ContainerStatus("db", 0)>>,
             InitContainerStatuses |-> <<>>,
             Conditions            |-> <<ReadyCondition("False")>>]]

(* A pod object as the client returns it: metadata and status *)
PodObject(p, st) == [id |-> p, Namespace |-> PodMeta[p].Namespace, Name |-> PodMeta[p].Name,
                     UID |-> PodMeta[p].UID, Status |-> st]

---------------------------------------------------------------------------
(* getCacheKey, isPodReady *)

RECURSIVE MaxRestartLoop(_, _)
MaxRestartLoop(css, acc) ==
    IF css = <<>> THEN acc
    ELSE MaxRestartLoop(Tail(css),
                        IF Head(css).RestartCount > acc THEN Head(css).RestartCount ELSE acc)

maxRestartCount(pod) ==
    MaxRestartLoop(pod.Status.InitContainerStatuses,
                   MaxRestartLoop(pod.Status.ContainerStatuses, 0))

(* a key without the restart count *)
getCacheKeyNoRestart(pod) ==
    pod.Namespace \o "/" \o pod.Name \o "/" \o pod.UID

getCacheKey(pod) ==
    pod.Namespace \o "/" \o pod.Name \o "/" \o pod.UID \o "/" \o ToString(maxRestartCount(pod))

RECURSIVE isReadyLoop(_)
isReadyLoop(conds) ==
    IF conds = <<>> THEN FALSE
    ELSE IF Head(conds).Type = "Ready" THEN Head(conds).Status = "True"
    ELSE isReadyLoop(Tail(conds))

isPodReady(pod) == isReadyLoop(pod.Status.Conditions)

(* every restart count of a pod, container statuses first (not in the code: used by the properties) *)
RestartVector(pod) ==
    [k \in 1..(Len(pod.Status.ContainerStatuses) + Len(pod.Status.InitContainerStatuses)) |->
        IF k <= Len(pod.Status.ContainerStatuses)
        THEN pod.Status.ContainerStatuses[k].RestartCount
        ELSE pod.Status.InitContainerStatuses[k - Len(pod.Status.ContainerStatuses)].RestartCount]

---------------------------------------------------------------------------
(* Log analysis: internal/controller/log_analysis.go *)

(* the zero value of LogAnalysisResult *)
EmptyResult ==
    [RootCause |-> "", Confidence |-> 0, Method |-> "", Methods |-> <<>>,
     MatchedPattern |-> "", Priority |-> 0, Model |-> "",
     PatternResult |-> <<>>, AIResult |-> <<>>, ErrorLines |-> <<>>,
     AnalyzedAt |-> ZeroTime, CachedAt |-> ZeroTime, CacheExpiresAt |-> <<>>]

(* Log lines of the model, and which of them each regular expression matches *)
LineRefused == "error: dial tcp 10.0.0.5:5432: connect: connection refused"
LineKafka   == "error: kafka broker not available"
LineOther   == "warning: disk usage high"
LineDatabase == "error: too many connections for role app"
LineAttempt(k) == "error: connection refused (attempt " \o ToString(k) \o ")"

ReConnectionRefused  == "(?i)(connection refused|connection reset|connection closed)"
ReConnectionTimeout  == "(?i)(connection timeout|timeout|timed out)"
ReDialTCP            == "(?i)(dial tcp|failed to connect)"
ReServiceUnavailable == "(?i)(service unavailable|503|503 service unavailable)"
ReDNSError           == "(?i)(no such host|name resolution failed|dns error|unknown host)"
ReKafkaBroker        == "(?i)(broker not available|leader not available|connection to node)"
ReKafkaConnection    == "(?i)(kafka.*connection|kafka.*timeout|kafka.*error)"
ReDatabaseConnection == "(?i)(connection pool exhausted|too many connections|database.*connection.*failed)"
ReHTTP502            == "(?i)(502 bad gateway|bad gateway)"
ReHTTP503            == "(?i)(503 service unavailable)"

(* regexp.MatchString on the lines of the model *)
MatchString(re, line) ==
    CASE re = ReConnectionRefused -> line = LineRefused \/ \E k \in 1..MaxLines : line = LineAttempt(k)
      [] re = ReDialTCP           -> line \in {LineRefused}
      [] re = ReKafkaBroker       -> line \in {LineKafka}
      [] re = ReDatabaseConnection -> line \in {LineDatabase}
      [] OTHER                    -> FALSE

(* regexp.Compile succeeds *)
CompileOk(re) == re # "(unclosed"

Pattern(name, re, rootCause, prio) ==
    [Name |-> name, Pattern |-> re, RootCause |-> rootCause, Priority |-> prio]

getDefaultPatterns ==
    << Pattern("ConnectionRefused", ReConnectionRefused,
               "Connection refused - service may be down or unreachable", 10),
       Pattern("ConnectionTimeout", ReConnectionTimeout,
               "Connection timeout - service may be slow or unreachable", 10),
       Pattern("DialTCP", ReDialTCP,
               "Network connection failed - unable to reach service", 10),
       Pattern("ServiceUnavailable", ReServiceUnavailable,
               "Service unavailable - backend service is down or overloaded", 10),
       Pattern("DNSError", ReDNSError,
               "DNS resolution failed - service name cannot be resolved", 10),
       Pattern("KafkaBrokerError", ReKafkaBroker,
               "Kafka service is down or unreachable", 15),
       Pattern("KafkaConnectionError", ReKafkaConnection,
               "Kafka connection error - broker may be down", 12),
       Pattern("DatabaseConnectionError", ReDatabaseConnection,
               "Database connection failed - connection pool may be exhausted", 10),
       Pattern("HTTP502", ReHTTP502,
               "502 Bad Gateway - upstream service is unavailable", 10),
       Pattern("HTTP503", ReHTTP503,
               "503 Service Unavailable - service is temporarily unavailable", 10) >>

(* sort.Slice(patterns, priority descending): for the at most 12 elements of the  *)
(* model Go sorts by insertion, which keeps the order of equal priorities          *)
RECURSIVE InsertByPriority(_, _)
InsertByPriority(sorted, x) ==
    IF sorted = <<>> THEN <<x>>
    ELSE IF x.Priority > sorted[Len(sorted)].Priority
         THEN Append(InsertByPriority(SubSeq(sorted, 1, Len(sorted) - 1), x), sorted[Len(sorted)])
         ELSE Append(sorted, x)

RECURSIVE SortByPriority(_)
SortByPriority(ps) ==
    IF ps = <<>> THEN <<>>
    ELSE InsertByPriority(SortByPriority(SubSeq(ps, 1, Len(ps) - 1)), ps[Len(ps)])

(* the patterns that compile, in declaration order *)
RECURSIVE CompilePatterns(_)
CompilePatterns(ps) ==
    IF ps = <<>> THEN <<>>
    ELSE IF CompileOk(Head(ps).Pattern) THEN <<Head(ps)>> \o CompilePatterns(Tail(ps))
    ELSE CompilePatterns(Tail(ps))

(* custom patterns if provided (lines 386-401): those that compile *)
customPatterns(config) ==
    IF Len(config.Patterns) > 0 THEN CompilePatterns(config.Patterns) ELSE <<>>

(* lines 402-427: the default patterns if there is no valid custom pattern *)
orDefaultPatterns(custom) == IF Len(custom) = 0 THEN getDefaultPatterns ELSE custom

(* lines 382-432: the patterns analyzeWithPatterns matches, highest priority first *)
sortedPatterns(config) == SortByPriority(orDefaultPatterns(customPatterns(config)))

(* index of the first pattern that matches the line, 0 if none *)
RECURSIVE FirstMatch(_, _, _)
FirstMatch(patterns, line, i) ==
    IF i > Len(patterns) THEN 0
    ELSE IF MatchString(patterns[i].Pattern, line) THEN i
    ELSE FirstMatch(patterns, line, i + 1)

(* lines 443-453: what one line does to [matchedLines, bestMatch (index, 0 = nil)], *)
(* m being the index of the first pattern that matches the line                      *)
MatchLine(acc, line, m) ==
    IF m = 0 THEN acc
    ELSE [matchedLines |-> Append(acc.matchedLines, line),
          bestMatch    |-> IF acc.bestMatch = 0 THEN m ELSE acc.bestMatch]

(* the loop over the log lines *)
RECURSIVE MatchLoop(_, _, _)
MatchLoop(patterns, lines, acc) ==
    IF lines = <<>> THEN acc
    ELSE MatchLoop(patterns, Tail(lines),
                   MatchLine(acc, Head(lines), FirstMatch(patterns, Head(lines), 1)))

(* lines 477-481 *)
patternRootCause(best, matchedLines) ==
    IF best.RootCause = "" /\ Len(matchedLines) > 0 THEN matchedLines[1] ELSE best.RootCause

(* lines 483-489 *)
patternConfidence(n) == IF n >= 3 THEN 80 ELSE IF n >= 2 THEN 65 ELSE 50

(* lines 463-497: the result for the outcome m of the loop: <<>> (nil) or <<r>> *)
matchResult(logLines, patterns, m) ==
    IF m.bestMatch = 0
    THEN IF Len(logLines) > 0
         THEN <<[EmptyResult EXCEPT !.RootCause = "Unknown error detected in logs",
                                    !.Confidence = 30,
                                    !.ErrorLines = Take(logLines, 10)]>>
         ELSE <<>>
    ELSE <<[EmptyResult EXCEPT !.RootCause = patternRootCause(patterns[m.bestMatch], m.matchedLines),
                               !.Confidence = patternConfidence(Len(m.matchedLines)),
                               !.ErrorLines = m.matchedLines,
                               !.MatchedPattern = patterns[m.bestMatch].Name,
                               !.Priority = patterns[m.bestMatch].Priority]>>

(* lines 434-497 *)
matchPatterns(logLines, patterns) ==
    matchResult(logLines, patterns,
                MatchLoop(patterns, logLines, [matchedLines |-> <<>>, bestMatch |-> 0]))

(* analyzeWithPatterns never returns an error: the result is <<>> (nil) or <<r>> *)
analyzeWithPatterns(logLines, config) == matchPatterns(logLines, sortedPatterns(config))

(* calculateAIConfidence on what the code reads of the text: its length, whether it      *)
(* contains a word of uncertainWords, how many words of certaintyWords, whether a word of *)
(* structureIndicators and whether a phrase of genericPhrases                             *)
(* lines 856-858 *)
ClampHigh(c) == IF c > 100 THEN 100 ELSE c

(* a range check without the lower bound *)
ClampRangeHighOnly(c) == IF c > 100 THEN 100 ELSE c

(* lines 882-887 *)
ClampRange(c) == IF c > 100 THEN 100 ELSE IF c < 10 THEN 10 ELSE c

calculateAIConfidence(rootCause) ==
    LET byLength  == IF rootCause.length > 200 THEN 80
                     ELSE IF rootCause.length > 100 THEN 75
                     ELSE IF rootCause.length > 50 THEN 70
                     ELSE IF rootCause.length < 20 THEN 40
                     ELSE 60
        uncertain == IF rootCause.uncertain THEN byLength - 15 ELSE byLength
        certain   == IF rootCause.certaintyCount > 0
                     THEN ClampHigh(uncertain + rootCause.certaintyCount * 5)
                     ELSE uncertain
        structure == IF rootCause.structured THEN certain + 8 ELSE certain
        generic   == IF rootCause.generic THEN structure - 25 ELSE structure
    IN  ClampRange(generic)

(* analyzeWithAI: aiOut is what the secret store and the HTTP endpoint answer:     *)
(* [err |-> "" or the error text, RootCause, Confidence, Model] (the parsed reply) *)
analyzeWithAI(logLines, config, aiOut) ==
    IF config.AIEndpoint = ""
    THEN [result |-> <<>>, err |-> "aiEndpoint is required for AI analysis"]
    ELSE IF aiOut.err # ""
    THEN [result |-> <<>>, err |-> aiOut.err]
    ELSE [result |-> <<[EmptyResult EXCEPT !.RootCause = aiOut.RootCause,
                                           !.Confidence = aiOut.Confidence,
                                           !.Model = aiOut.Model,
                                           !.ErrorLines = Take(logLines, 20)]>>,
          err |-> ""]

RECURSIVE DedupLoop(_, _)
DedupLoop(lines, result) ==
    IF lines = <<>> THEN result
    ELSE DedupLoop(Tail(lines),
                   IF Head(lines) \in Range(result) THEN result ELSE Append(result, Head(lines)))

(* a deduplicateLines that keeps every line *)
deduplicateLinesKeep(lines) == lines

deduplicateLines(lines) == DedupLoop(lines, <<>>)

(* line 222 *)
aiIsHighInclusive(confidence) == confidence >= 80

aiIsHigh(confidence) == confidence > 80

(* line 227 *)
aiIsLow(confidence) == confidence < 50

(* a merge that always returns a result *)
mergeAnalysisResultsAlways(patternResult, aiResult, methods, errorLines) ==
    <<[EmptyResult EXCEPT !.Methods = methods, !.PatternResult = patternResult,
                          !.AIResult = aiResult, !.ErrorLines = errorLines]>>

(* patternResult, aiResult: <<>> (nil) or <<v>>; the result is <<>> (nil) or <<r>> *)
mergeAnalysisResults(patternResult, aiResult, methods, errorLines) ==
    LET result == [EmptyResult EXCEPT !.Methods = methods,
                                      !.PatternResult = patternResult,
                                      !.AIResult = aiResult,
                                      !.ErrorLines = deduplicateLines(errorLines)]
    IN  IF aiResult # <<>> /\ patternResult # <<>>
        THEN IF aiIsHigh(aiResult[1].Confidence)
             THEN <<[result EXCEPT !.RootCause = aiResult[1].RootCause,
                                   !.Confidence = aiResult[1].Confidence,
                                   !.Method = "ai"]>>
             ELSE IF aiIsLow(aiResult[1].Confidence)
             THEN <<[result EXCEPT !.RootCause = patternResult[1].RootCause,
                                   !.Confidence = patternResult[1].Confidence,
                                   !.Method = "pattern"]>>
             ELSE <<[result EXCEPT !.RootCause = "[Pattern] " \o patternResult[1].RootCause
                                                 \o " | [AI] " \o aiResult[1].RootCause,
                                   !.Confidence = (patternResult[1].Confidence
                                                   + aiResult[1].Confidence) \div 2,
                                   !.Method = "pattern+ai"]>>
        ELSE IF aiResult # <<>>
        THEN <<[result EXCEPT !.RootCause = aiResult[1].RootCause,
                              !.Confidence = aiResult[1].Confidence,
                              !.Method = "ai"]>>
        ELSE IF patternResult # <<>>
        THEN <<[result EXCEPT !.RootCause = patternResult[1].RootCause,
                              !.Confidence = patternResult[1].Confidence,
                              !.Method = "pattern"]>>
        ELSE <<>>

PatternVerdict(mp, prio, rc, conf, err) ==
    [MatchedPattern |-> mp, Priority |-> prio, RootCause |-> rc, Confidence |-> conf, Error |-> err]

AIVerdict(model, rc, conf, err) ==
    [Model |-> model, RootCause |-> rc, Confidence |-> conf, Error |-> err]

(* a failure of the AI method that leaves no text *)
aiErrorVerdictSilent(err) == AIVerdict("", "", 0, "")

(* a failure of the AI method recorded with a medium confidence *)
aiErrorVerdictMedium(err) == AIVerdict("", "", 65, "AI analysis failed: " \o err)

(* lines 181-183: the verdict of an AI method that failed with err *)
aiErrorVerdict(err) == AIVerdict("", "", 0, "AI analysis failed: " \o err)

(* lines 147-149: patternResult, aiResult, errorLines before the loop *)
NoVerdicts == [patternResult |-> <<>>, aiResult |-> <<>>, errorLines |-> <<>>]

(* lines 155-197: the switch on the method.  pr is what analyzeWithPatterns returns and ar *)
(* what analyzeWithAI returns, for the method that is run                                   *)
MethodStep(method, acc, pr, ar) ==
    IF method = "pattern"
    THEN IF pr # <<>>
         THEN [acc EXCEPT !.patternResult =
                              <<PatternVerdict(pr[1].MatchedPattern, pr[1].Priority,
                                               pr[1].RootCause, pr[1].Confidence, "")>>,
                          !.errorLines = acc.errorLines \o pr[1].ErrorLines]
         ELSE acc
    ELSE IF method = "ai"
    THEN IF ar.err # ""
         THEN [acc EXCEPT !.aiResult = <<aiErrorVerdict(ar.err)>>]
         ELSE IF ar.result # <<>>
         THEN [acc EXCEPT !.aiResult =
                              <<AIVerdict(ar.result[1].Model, ar.result[1].RootCause,
                                          ar.result[1].Confidence, "")>>,
                          !.errorLines = acc.errorLines \o ar.result[1].ErrorLines]
         ELSE acc
    ELSE acc

(* a loop that stops at the first method that failed *)
MoreMethodsUntilFailure(methods, i, acc) ==
    /\ i <= Len(methods)
    /\ ~(acc.aiResult # <<>> /\ acc.aiResult[1].Error # "")

(* line 152: the loop goes over every method *)
MoreMethods(methods, i, acc) == i <= Len(methods)

(* the loop over the methods from the i-th on: acc = [patternResult, aiResult, errorLines] *)
RECURSIVE MethodLoop(_, _, _, _, _, _)
MethodLoop(methods, i, logLines, config, aiOut, acc) ==
    IF ~MoreMethods(methods, i, acc) THEN acc
    ELSE MethodLoop(methods, i + 1, logLines, config, aiOut,
                    MethodStep(methods[i], acc, analyzeWithPatterns(logLines, config),
                               analyzeWithAI(logLines, config, aiOut)))

(* lines 123-132 *)
methodsOf(c) ==
    IF Len(c.Methods) = 0 /\ c.Method # "" THEN <<c.Method>>
    ELSE IF Len(c.Methods) = 0 THEN <<"pattern">>
    ELSE c.Methods

(* lines 200-207: finalResult is what mergeAnalysisResults returns, t the time of metav1.Now() *)
finishAnalysis(finalResult, t) ==
    [result |-> IF finalResult # <<>> THEN <<[finalResult[1] EXCEPT !.AnalyzedAt = t]>> ELSE <<>>,
     err |-> ""]

(* line 201 *)
mergeVerdicts(acc, methods) ==
    mergeAnalysisResults(acc.patternResult, acc.aiResult, methods, acc.errorLines)

(* lines 147-207 *)
runMethods(c, methods, logLines, aiOut, t) ==
    finishAnalysis(mergeVerdicts(MethodLoop(methods, 1, logLines, c, aiOut, NoVerdicts), methods), t)

(* config: <<>> (nil) or <<LogAnalysisConfig>>.  logOut is what getPodLogs returns:  *)
(* [err |-> "" or the error text, lines].  t is the time of metav1.Now().            *)
(* The result is [result |-> <<>> (nil) or <<r>>, err |-> "" (nil) or the error text] *)
analyzeLogs(config, logOut, aiOut, t) ==
    IF config = <<>> \/ ~config[1].Enabled
    THEN [result |-> <<>>, err |-> ""]
    ELSE IF logOut.err # ""
    THEN [result |-> <<>>, err |-> "failed to get pod logs: " \o logOut.err]
    ELSE IF Len(logOut.lines) = 0
    THEN [result |-> <<>>, err |-> ""]
    ELSE runMethods(config[1], methodsOf(config[1]), logOut.lines, aiOut, t)

---------------------------------------------------------------------------
(* The investigation of a pod that is not ready: podsleuth_controller.go, lines 309-461, *)
(* and the choice of the container whose logs are read: log_analysis.go, lines 269-304.   *)
(* A pointer is <<>> (nil) or <<the value>>.                                              *)

(* corev1.ContainerState: at most one of the three members is set *)
NoState == [Waiting |-> <<>>, Terminated |-> <<>>, Running |-> <<>>]

StateWaiting(reason, message) ==
    [NoState EXCEPT !.Waiting = <<[Reason |-> reason, Message |-> message]>>]

StateTerminated(reason, message, exitCode) ==
    [NoState EXCEPT !.Terminated = <<[Reason |-> reason, Message |-> message, ExitCode |-> exitCode]>>]

StateRunning == [NoState EXCEPT !.Running = <<[StartedAt |-> 0]>>]

(* corev1.ContainerStatus with the fields the investigation reads *)
DetailedStatus(name, ready, state, last) ==
    [Name |-> name, Ready |-> ready, RestartCount |-> IF last.Terminated # <<>> THEN 1 ELSE 0,
     State |-> state, LastTerminationState |-> last]

(* lines 388-393 *)
NewContainerError(containerStatus, containerType) ==
    [ContainerName |-> containerStatus.Name, Type |-> containerType,
     Ready |-> containerStatus.Ready, RestartCount |-> containerStatus.RestartCount,
     State |-> "", Reason |-> "", Message |-> "", ExitCode |-> <<>>]

(* lines 403-411: fmt.Sprintf of the message of a terminated container without one *)
terminatedMessage(reason, exitCode) ==
    IF exitCode # <<>>
    THEN "Container terminated with reason '" \o reason \o "' (exit code: "
            \o ToString(exitCode[1]) \o ")"
    ELSE "Container terminated with reason '" \o reason \o "'"

(* lines 395-419: the current state *)
investigateCurrentState(containerStatus, err) ==
    IF containerStatus.State.Waiting # <<>>
    THEN [err EXCEPT !.State = "waiting",
                     !.Reason = containerStatus.State.Waiting[1].Reason,
                     !.Message = containerStatus.State.Waiting[1].Message]
    ELSE IF containerStatus.State.Terminated # <<>>
    THEN [err EXCEPT !.State = "terminated",
                     !.Reason = containerStatus.State.Terminated[1].Reason,
                     !.Message = IF containerStatus.State.Terminated[1].Message = ""
                                 THEN terminatedMessage(containerStatus.State.Terminated[1].Reason,
                                                        <<containerStatus.State.Terminated[1].ExitCode>>)
                                 ELSE containerStatus.State.Terminated[1].Message,
                     !.ExitCode = <<containerStatus.State.Terminated[1].ExitCode>>]
    ELSE IF containerStatus.State.Running # <<>>
    THEN IF ~containerStatus.Ready
         THEN [err EXCEPT !.State = "running", !.Reason = "ReadinessProbeFailed",
                          !.Message = "Container is running but readiness probe is failing"]
         ELSE [err EXCEPT !.State = "running"]
    ELSE err

(* lines 421-435: the last termination, for crash loops *)
investigateLastTermination(containerStatus, err) ==
    IF containerStatus.LastTerminationState.Terminated # <<>>
       /\ (err.Reason = "" \/ err.Reason = "CrashLoopBackOff")
    THEN [err EXCEPT
            !.Message = IF err.Message = ""
                        THEN "Container exited with code "
                                \o ToString(containerStatus.LastTerminationState.Terminated[1].ExitCode)
                                \o ": " \o containerStatus.LastTerminationState.Terminated[1].Reason
                        ELSE err.Message,
            !.ExitCode = IF err.ExitCode = <<>>
                         THEN <<containerStatus.LastTerminationState.Terminated[1].ExitCode>>
                         ELSE err.ExitCode]
    ELSE err

(* a fallback for terminated and waiting containers only: any other container keeps its *)
(* empty reason                                                                          *)
investigateFallbackStatesOnly(err) ==
    IF err.Reason # "" THEN err
    ELSE IF err.State = "terminated" /\ err.ExitCode # <<>>
    THEN [err EXCEPT !.Reason = "ContainerTerminated"]
    ELSE IF err.State = "waiting"
    THEN [err EXCEPT !.Reason = "ContainerWaiting"]
    ELSE err

(* lines 437-458: the final fallback *)
investigateFallback(err) ==
    IF err.Reason # "" THEN err
    ELSE IF err.State = "terminated" /\ err.ExitCode # <<>>
    THEN [err EXCEPT !.Reason = "ContainerTerminated",
                     !.Message = IF err.Message = ""
                                 THEN "Container terminated with exit code " \o ToString(err.ExitCode[1])
                                 ELSE err.Message]
    ELSE IF err.State = "waiting"
    THEN [err EXCEPT !.Reason = "ContainerWaiting",
                     !.Message = IF err.Message = "" THEN "Container is waiting to start"
                                 ELSE err.Message]
    ELSE IF ~err.Ready
    THEN [err EXCEPT !.Reason = "ContainerNotReady",
                     !.Message = IF err.Message = "" THEN "Container is not ready"
                                 ELSE err.Message]
    ELSE err

(* lines 386-461 *)
investigateContainerStatus(containerStatus, containerType) ==
    investigateFallback(
        investigateLastTermination(containerStatus,
            investigateCurrentState(containerStatus,
                NewContainerError(containerStatus, containerType))))

(* lines 318-325 *)
shouldInvestigate(containerStatus) ==
    \/ ~containerStatus.Ready
    \/ /\ containerStatus.State.Terminated # <<>>
       /\ \/ containerStatus.State.Terminated[1].ExitCode # 0
          \/ containerStatus.State.Terminated[1].Reason = "Error"

(* lines 331-343: the primary reason and message after the finding err of a container *)
primaryAfter(acc, err) ==
    IF acc.primaryReason = ""
    THEN [acc EXCEPT !.primaryReason = err.Reason, !.primaryMessage = err.Message]
    ELSE IF err.State # "running" /\ err.Reason # ""
            /\ (err.State = "waiting"
                \/ (err.State = "terminated" /\ acc.primaryReason = "ReadinessProbeFailed"))
    THEN [acc EXCEPT !.primaryReason = err.Reason, !.primaryMessage = err.Message]
    ELSE acc

(* lines 327-343: one investigated container *)
ContainerFound(acc, err) ==
    primaryAfter([acc EXCEPT !.containerErrors = Append(@, err)], err)

(* lines 316-345: the loop over the container statuses *)
RECURSIVE ContainerLoop(_, _, _)
ContainerLoop(statuses, i, acc) ==
    IF i > Len(statuses) THEN acc
    ELSE IF shouldInvestigate(statuses[i])
    THEN ContainerLoop(statuses, i + 1,
                       ContainerFound(acc, investigateContainerStatus(statuses[i], "container")))
    ELSE ContainerLoop(statuses, i + 1, acc)

(* lines 353-357: one investigated init container *)
InitContainerFound(acc, err) ==
    IF acc.primaryReason = ""
    THEN [acc EXCEPT !.containerErrors = Append(@, err),
                     !.primaryReason = err.Reason, !.primaryMessage = err.Message]
    ELSE [acc EXCEPT !.containerErrors = Append(@, err)]

(* lines 347-359: the loop over the init container statuses *)
RECURSIVE InitContainerLoop(_, _, _)
InitContainerLoop(statuses, i, acc) ==
    IF i > Len(statuses) THEN acc
    ELSE IF ~statuses[i].Ready
    THEN InitContainerLoop(statuses, i + 1,
                           InitContainerFound(acc, investigateContainerStatus(statuses[i], "initContainer")))
    ELSE InitContainerLoop(statuses, i + 1, acc)

(* lines 372-381: the Ready condition as the fallback *)
RECURSIVE ReadyFallback(_, _, _)
ReadyFallback(conditions, i, acc) ==
    IF acc.primaryReason # "" \/ i > Len(conditions) THEN acc
    ELSE IF conditions[i].Type = "Ready" /\ conditions[i].Status = "False"
    THEN [acc EXCEPT !.primaryReason = conditions[i].Reason,
                     !.primaryMessage = conditions[i].Message]
    ELSE ReadyFallback(conditions, i + 1, acc)

NothingFound == [containerErrors |-> <<>>, primaryReason |-> "", primaryMessage |-> ""]

(* lines 310-384; the conditions returned are those of the pod *)
investigatePodFailure(pod) ==
    ReadyFallback(pod.Status.Conditions, 1,
        InitContainerLoop(pod.Status.InitContainerStatuses, 1,
            ContainerLoop(pod.Status.ContainerStatuses, 1, NothingFound)))

(* log_analysis.go, lines 276-290: the two names after the loop over the statuses *)
RECURSIVE ChooseLoop(_, _, _)
ChooseLoop(statuses, i, acc) ==
    IF i > Len(statuses) THEN acc
    ELSE ChooseLoop(statuses, i + 1,
            [containerWithError |->
                IF ~statuses[i].Ready
                   /\ (statuses[i].State.Waiting # <<>> \/ statuses[i].State.Terminated # <<>>)
                   /\ acc.containerWithError = ""
                THEN statuses[i].Name ELSE acc.containerWithError,
             containerName |->
                IF ~statuses[i].Ready /\ acc.containerName = ""
                THEN statuses[i].Name ELSE acc.containerName])

(* a choice of the first container that is not ready, whatever its state *)
containerOfFirstNonReady(chosen, containers) ==
    IF chosen.containerName # "" THEN chosen.containerName
    ELSE IF Len(containers) > 0 THEN containers[1].Name
    ELSE ""

(* lines 292-300 *)
containerOf(chosen, containers) ==
    IF chosen.containerWithError # "" THEN chosen.containerWithError
    ELSE IF chosen.containerName # "" THEN chosen.containerName
    ELSE IF Len(containers) > 0 THEN containers[1].Name
    ELSE ""

(* lines 271-300: the name of the container to analyze, "" if there is none *)
containerToAnalyze(pod) ==
    containerOf(ChooseLoop(pod.Status.ContainerStatuses, 1,
                           [containerWithError |-> "", containerName |-> ""]),
                pod.Spec.Containers)

(* lines 302-304 and 320-345: stream is what the log source answers for a container, *)
(* [err, lines] as a value of the form getPodLogs returns                             *)
logsOf(containerName, pod, stream) ==
    IF containerName = ""
    THEN [err |-> "no container found to analyze for pod " \o pod.Namespace \o "/" \o pod.Name,
          lines |-> <<>>]
    ELSE stream[containerName]

(* lines 269-345 *)
getPodLogs(pod, stream) == logsOf(containerToAnalyze(pod), pod, stream)

---------------------------------------------------------------------------
(* The analysis cache: internal/controller/podsleuth_controller.go *)

(* a lookup for which an entry has expired as soon as its expiry time is reached *)
getCachedAnalysisStrict(cache, pod, t) ==
    LET cacheKey == getCacheKey(pod) IN
    [result |-> IF cacheKey \notin DOMAIN cache THEN 0
                ELSE IF t >= cache[cacheKey].ExpiresAt THEN 0
                ELSE cache[cacheKey].Result,
     cache  |-> cache]

(* a lookup that deletes the entry it finds expired *)
getCachedAnalysisEvict(cache, pod, t) ==
    LET cacheKey == getCacheKey(pod) IN
    [result |-> IF cacheKey \notin DOMAIN cache THEN 0
                ELSE IF t > cache[cacheKey].ExpiresAt THEN 0
                ELSE cache[cacheKey].Result,
     cache  |-> IF cacheKey \in DOMAIN cache /\ t > cache[cacheKey].ExpiresAt
                THEN Restrict(cache, DOMAIN cache \ {cacheKey})
                ELSE cache]

(* retrieves the cached result (an object id, 0 is nil) if it exists and has not expired at  *)
(* time t: what the call returns and the map it leaves behind                               *)
getCachedAnalysis(cache, pod, t) ==
    LET cacheKey == getCacheKey(pod) IN
    [result |-> IF cacheKey \notin DOMAIN cache THEN 0
                ELSE IF t > cache[cacheKey].ExpiresAt THEN 0
                ELSE cache[cacheKey].Result,
     cache  |-> cache]

(* a store that stamps and keeps a copy of the result, leaving the caller's object alone *)
setCachedAnalysisCopy(cache, h, pod, result, cacheTTL, t) ==
    LET expiresAt == t + cacheTTL
        copy == CHOOSE i \in 1..(Cardinality(DOMAIN h) + 1) : i \notin DOMAIN h
    IN
    [heap  |-> Put1(h, copy, [h[result] EXCEPT !.CachedAt = t,
                                               !.CacheExpiresAt = <<expiresAt>>]),
     cache |-> Put1(cache, getCacheKey(pod),
                    [PodUID       |-> pod.UID,
                     PodNamespace |-> pod.Namespace,
                     PodName      |-> pod.Name,
                     RestartCount |-> maxRestartCount(pod),
                     Result       |-> copy,
                     CachedAt     |-> t,
                     ExpiresAt    |-> expiresAt])]

(* stores the object `result` under the pod's key at time t: the new cache and the new heap *)
setCachedAnalysis(cache, h, pod, result, cacheTTL, t) ==
    LET expiresAt == t + cacheTTL IN
    [heap  |-> [h EXCEPT ![result].CachedAt = t,
                         ![result].CacheExpiresAt = <<expiresAt>>],
     cache |-> Put1(cache, getCacheKey(pod),
                    [PodUID       |-> pod.UID,
                     PodNamespace |-> pod.Namespace,
                     PodName      |-> pod.Name,
                     RestartCount |-> maxRestartCount(pod),
                     Result       |-> result,
                     CachedAt     |-> t,
                     ExpiresAt    |-> expiresAt])]

(* a sweep that deletes only when no pod is left *)
cleanupCacheWhenEmpty(cache, currentPods) ==
    IF currentPods = {} THEN <<>> ELSE cache

(* removes the entries whose key is not in currentPods *)
cleanupCache(cache, currentPods) ==
    Restrict(cache, {key \in DOMAIN cache : key \in currentPods})

(* sync.RWMutex: whether the caller gets the lock now (it waits otherwise), and the lock after *)
RLock(m) == [ok |-> ~m.writer, mux |-> [m EXCEPT !.readers = @ + 1]]

RUnlock(m) == [m EXCEPT !.readers = @ - 1]

Lock(m) == [ok |-> ~m.writer /\ m.readers = 0, mux |-> [m EXCEPT !.writer = TRUE]]

Unlock(m) == [m EXCEPT !.writer = FALSE]

(* the Go runtime: a fresh object id, and the objects still referenced by the cache, by the *)
(* Reconcile call in flight or by a goroutine                                               *)
NewObject(h) ==
    CHOOSE i \in 1..(Cardinality(DOMAIN h) + 1) :
        i \notin DOMAIN h /\ \A j \in 1..(i - 1) : j \in DOMAIN h

Roots(cache, ps, th) ==
    {cache[k].Result : k \in DOMAIN cache}
    \cup {ps.nonReadyPods[n].LogAnalysis : n \in 1..Len(ps.nonReadyPods)}
    \cup {ps.result}
    \cup {th[t].result : t \in DOMAIN th}
    \cup {th[t].ret : t \in DOMAIN th}

Collect(h, cache, ps, th) == Restrict(h, Roots(cache, ps, th) \ {0})

---------------------------------------------------------------------------
(* PodSleuth resources *)

AnnForceRefresh    == "kubesleuth.io/force-refresh"
AnnForceRefreshPod == "kubesleuth.io/force-refresh-pod"

LogAnalysisConfig(cacheEnabled, cacheTTL, methods) ==
    [Enabled |-> TRUE, Method |-> "", Methods |-> methods, MethodConfigs |-> <<>>,
     CacheEnabled |-> cacheEnabled, CacheTTL |-> cacheTTL,
     Patterns |-> <<>>, AIEndpoint |-> "http://ai.example/v1/chat/completions"]

(* PodLabelSelector: <<>> (nil: every pod) or <<the set of pods carrying the labels>> *)
PodSleuthSpecs ==
    { [g1 |-> [PodLabelSelector |-> <<>>, LogAnalysis |-> <<c>>]] :
        c \in { LogAnalysisConfig(<<>>, <<ShortTTL>>, <<"pattern", "ai">>),
                LogAnalysisConfig(<<FALSE>>, <<>>, <<"pattern">>) } }

(* what the log source and the AI endpoint can answer *)
LogOutcomes ==
    { [err |-> "failed to stream logs: connection lost", lines |-> <<>>],
      [err |-> "", lines |-> <<>>],
      [err |-> "", lines |-> <<LineRefused>>] }

AIOutcomes ==
    { [err |-> "AI endpoint returned status 500: boom", RootCause |-> "", Confidence |-> 0, Model |-> ""],
      [err |-> "", RootCause |-> "database is unreachable", Confidence |-> 65, Model |-> "m1"] }

(* request bodies of POST /api/force-refresh *)
ForceRefreshBodies ==
    { [PodName |-> "", PodNamespace |-> ""],
      [PodName |-> "web", PodNamespace |-> "ns"] }

---------------------------------------------------------------------------
(* Initial state *)

IdlePass ==
    [pc |-> "idle", req |-> "", globalForceRefresh |-> FALSE, targetForcePod |-> "",
     podList |-> <<>>, i |-> 0, nonReadyPods |-> <<>>, result |-> 0, err |-> "",
     stored |-> {}]

NoStep == [op |-> "none"]

InitCommon ==
    /\ now = 0
    /\ analysisCache = <<>>
    /\ heap = <<>>
    /\ pass = IdlePass
    /\ lastStep = NoStep
    /\ lastPut = <<>>
    /\ everCachedAt = [p \in DOMAIN pods |-> ZeroTime]
    /\ lastRun = [p \in DOMAIN pods |-> [hit |-> FALSE, reported |-> <<>>, forcedAt |-> ZeroTime]]
    /\ mux = [readers |-> 0, writer |-> FALSE]
    /\ threads = <<>>

(* one PodSleuth watching one pod with a container and an init container *)
Init ==
    /\ pods = Restrict(InitialPods, {"p1"})
    /\ podSleuthSpec \in PodSleuthSpecs
    /\ annotations = [g \in DOMAIN podSleuthSpec |-> <<>>]
    /\ InitCommon

---------------------------------------------------------------------------
(* The environment: the clock, the kubelet, the dashboard *)

(* the clock is read at multiples of TickStep (and after the sleep of a forced analysis) *)
Tick ==
    /\ now + TickStep <= MaxTime
    /\ now' = now + TickStep
    /\ lastStep' = NoStep
    /\ UNCHANGED <<pods, annotations, podSleuthSpec, analysisCache, heap, pass,
                   lastPut, everCachedAt, lastRun, mux, threads>>

(* Reconcile reads the pods only in r.List: a pod that changes while a call is in flight *)
(* is seen by the next call, as if it had changed right after the call in flight ended,  *)
(* so the changes are taken between the calls.                                           *)

(* a container (init = FALSE) or init container (init = TRUE) of pod p restarts *)
ContainerRestart(p, init, k) ==
    LET field == IF init THEN "InitContainerStatuses" ELSE "ContainerStatuses" IN
    /\ pass.pc = "idle"
    /\ k \in 1..Len(pods[p][field])
    /\ pods[p][field][k].RestartCount < MaxRestart
    /\ pods' = [pods EXCEPT ![p][field][k].RestartCount = @ + 1]
    /\ lastStep' = NoStep
    /\ UNCHANGED <<now, annotations, podSleuthSpec, analysisCache, heap, pass,
                   lastPut, everCachedAt, lastRun, mux, threads>>

(* the Ready condition of pod p flips *)
PodReadyChange(p) ==
    /\ pass.pc = "idle"
    /\ pods' = [pods EXCEPT ![p].Conditions =
                    <<ReadyCondition(IF isReadyLoop(pods[p].Conditions) THEN "False" ELSE "True")>>]
    /\ lastStep' = NoStep
    /\ UNCHANGED <<now, annotations, podSleuthSpec, analysisCache, heap, pass,
                   lastPut, everCachedAt, lastRun, mux, threads>>

(* POST /api/force-refresh: annotates every PodSleuth whose Update succeeds.  The bodies of  *)
(* the model carry no surrounding blanks, so strings.TrimSpace leaves them as they are.      *)
handleForceRefresh(reqBody, updated) ==
    LET targetPod == IF reqBody.PodName # "" /\ reqBody.PodNamespace # ""
                     THEN reqBody.PodNamespace \o "/" \o reqBody.PodName
                     ELSE ""
    IN
    /\ updated \subseteq DOMAIN annotations
    /\ annotations' =
          [g \in DOMAIN annotations |->
              IF g \notin updated THEN annotations[g]
              ELSE IF targetPod # ""
                   THEN Put1(annotations[g], AnnForceRefreshPod, targetPod)
                   ELSE Put1(annotations[g], AnnForceRefresh, ToString(now \div OneSecond))]
    /\ lastStep' = NoStep
    /\ UNCHANGED <<now, pods, podSleuthSpec, analysisCache, heap, pass,
                   lastPut, everCachedAt, lastRun, mux, threads>>

---------------------------------------------------------------------------
(* Reconcile: one call at a time (the controller runs a single worker) *)

(* r.List: the pods matching the selector, as they are now *)
RECURSIVE ListPods(_, _)
ListPods(order, selector) ==
    IF order = <<>> THEN <<>>
    ELSE IF Head(order) \in DOMAIN pods /\ (selector = <<>> \/ Head(order) \in selector[1])
         THEN <<PodObject(Head(order), pods[Head(order)])>> \o ListPods(Tail(order), selector)
         ELSE ListPods(Tail(order), selector)

(* lines 83-120: fetch the PodSleuth, read the force-refresh annotations, list the pods *)
ReconcileBegin(g) ==
    /\ pass.pc = "idle"
    /\ g \in DOMAIN podSleuthSpec
    /\ pass' = [IdlePass EXCEPT
                   !.pc = "pods",
                   !.req = g,
                   !.globalForceRefresh = (AnnForceRefresh \in DOMAIN annotations[g]),
                   !.targetForcePod = IF AnnForceRefreshPod \in DOMAIN annotations[g]
                                      THEN annotations[g][AnnForceRefreshPod] ELSE "",
                   !.podList = ListPods(AllPods, podSleuthSpec[g].PodLabelSelector),
                   !.i = 1]
    /\ lastStep' = NoStep
    /\ UNCHANGED <<now, pods, annotations, podSleuthSpec, analysisCache, heap,
                   lastPut, everCachedAt, lastRun, mux, threads>>

(* lines 83-120 when r.List fails: the call has read the annotations and returns the error *)
ReconcileListError(g) ==
    /\ pass.pc = "idle"
    /\ g \in DOMAIN podSleuthSpec
    /\ lastStep' = [op |-> "list", req |-> g, ok |-> FALSE]
    /\ UNCHANGED <<now, pods, annotations, podSleuthSpec, analysisCache, heap, pass,
                   lastPut, everCachedAt, lastRun, mux, threads>>

(* analyzedAt, cachedAt and cacheExpiresAt of a reported result *)
Timestamps(r) == <<r.AnalyzedAt, r.CachedAt, r.CacheExpiresAt>>

PodInfo(pod, logAnalysis) ==
    [Name |-> pod.Name, Namespace |-> pod.Namespace, LogAnalysis |-> logAnalysis]

CacheTTLOf(config) == IF config.CacheTTL # <<>> THEN config.CacheTTL[1] ELSE DefaultCacheTTL

CacheEnabledOf(config) == IF config.CacheEnabled # <<>> THEN config.CacheEnabled[1] ELSE TRUE

ForceRefreshOf(ps, pod) ==
    ps.globalForceRefresh
    \/ (ps.targetForcePod # "" /\ ps.targetForcePod = pod.Namespace \o "/" \o pod.Name)

(* a lookup that ignores the force-refresh flag *)
CacheConsultedAlways(cacheEnabled, forceRefresh) == cacheEnabled

(* line 185: the cache is looked up if caching is enabled and no refresh is forced *)
CacheConsulted(cacheEnabled, forceRefresh) == cacheEnabled /\ ~forceRefresh

(* a forced analysis that does not wait *)
ForceRefreshNoSleep(forceRefresh) == 0

(* the duration of the sleep before a forced analysis *)
ForceRefreshSleep(forceRefresh) == IF forceRefresh THEN SleepTicks ELSE 0

(* lines 203-208 *)
FailureResult(err, t) ==
    [EmptyResult EXCEPT !.RootCause = "Analysis Failed: " \o err,
                        !.Methods = <<"failed">>,
                        !.AnalyzedAt = t,
                        !.Confidence = 0]

(* lines 124-209, 225-256: one iteration of the loop over the pods, up to the result of the *)
(* analysis.  logOut and aiOut are what the log source and the AI endpoint answer.          *)
ReconcilePod(logOut, aiOut) ==
    /\ pass.pc = "pods"
    /\ pass.i <= Len(pass.podList)
    /\ LET pod          == pass.podList[pass.i]
           logAnalysis  == podSleuthSpec[pass.req].LogAnalysis
           enabled      == logAnalysis # <<>> /\ logAnalysis[1].Enabled
           config       == logAnalysis[1]
           cacheEnabled == CacheEnabledOf(config)
           forceRefresh == ForceRefreshOf(pass, pod)
           consulted    == CacheConsulted(cacheEnabled, forceRefresh)
           get          == getCachedAnalysis(analysisCache, pod, now)
           cached       == IF consulted THEN get.result ELSE 0
           tA           == now + ForceRefreshSleep(forceRefresh)
           out          == analyzeLogs(logAnalysis, logOut, aiOut, tA)
           result       == IF out.err # "" THEN <<FailureResult(out.err, tA)>> ELSE out.result
           obj          == NewObject(heap)
           step(hit, fetched) ==
               [op |-> "pod", pod |-> pod.id, key |-> getCacheKey(pod), at |-> now,
                restarts |-> RestartVector(pod), prevHit |-> lastRun[pod.id].hit,
                forced |-> forceRefresh, consulted |-> consulted, hit |-> hit,
                fetched |-> fetched,
                fetchFailed |-> fetched /\ logOut.err # "",
                ranMethods |-> fetched /\ logOut.err = "" /\ Len(logOut.lines) > 0,
                obj |-> IF hit THEN cached ELSE IF fetched /\ result # <<>> THEN obj ELSE 0]
       IN
       IF isReadyLoop(pod.Status.Conditions)
       THEN /\ pass' = [pass EXCEPT !.i = @ + 1]
            /\ lastStep' = NoStep
            /\ UNCHANGED <<now, heap, lastRun, analysisCache>>
       ELSE IF ~enabled
       THEN /\ pass' = [pass EXCEPT !.i = @ + 1,
                                    !.nonReadyPods = Append(@, PodInfo(pod, 0))]
            /\ lastStep' = NoStep
            /\ UNCHANGED <<now, heap, lastRun, analysisCache>>
       ELSE IF cached # 0
       THEN /\ pass' = [pass EXCEPT !.i = @ + 1,
                                    !.nonReadyPods = Append(@, PodInfo(pod, cached))]
            /\ analysisCache' = get.cache
            /\ lastStep' = step(TRUE, FALSE)
            /\ lastRun' = [lastRun EXCEPT ![pod.id].hit = TRUE,
                                          ![pod.id].reported = Timestamps(heap[cached])]
            /\ UNCHANGED <<now, heap>>
       ELSE /\ tA <= MaxTime
            /\ now' = tA
            /\ analysisCache' = IF consulted THEN get.cache ELSE analysisCache
            /\ lastStep' = step(FALSE, TRUE)
            /\ IF result # <<>>
               THEN /\ heap' = Put1(heap, obj, result[1])
                    /\ pass' = [pass EXCEPT !.pc = "cache", !.result = obj, !.err = out.err]
                    /\ lastRun' = [lastRun EXCEPT ![pod.id].forcedAt =
                                                      IF forceRefresh THEN tA ELSE @]
               ELSE /\ pass' = [pass EXCEPT !.i = @ + 1,
                                            !.nonReadyPods = Append(@, PodInfo(pod, 0))]
                    /\ lastRun' = [lastRun EXCEPT ![pod.id].hit = FALSE,
                                                  ![pod.id].reported = <<>>,
                                                  ![pod.id].forcedAt =
                                                      IF forceRefresh THEN tA ELSE @]
                    /\ UNCHANGED heap
    /\ UNCHANGED <<pods, annotations, podSleuthSpec, lastPut, everCachedAt, mux, threads>>

(* lines 211-228, 243: the result of the analysis is cached (if caching is enabled) and reported *)
ReconcileCache ==
    /\ pass.pc = "cache"
    /\ LET pod          == pass.podList[pass.i]
           config       == podSleuthSpec[pass.req].LogAnalysis[1]
           cacheTTL     == CacheTTLOf(config)
           cacheEnabled == CacheEnabledOf(config)
           key          == getCacheKey(pod)
           put          == setCachedAnalysis(analysisCache, heap, pod, pass.result, cacheTTL, now)
           newPass      == [pass EXCEPT !.pc = "pods", !.i = @ + 1, !.result = 0, !.err = "",
                                        !.nonReadyPods = Append(@, PodInfo(pod, pass.result)),
                                        !.stored = IF cacheEnabled THEN @ \cup {key} ELSE @]
           newCache     == IF cacheEnabled THEN put.cache ELSE analysisCache
           newHeap      == IF cacheEnabled THEN put.heap ELSE heap
       IN
       /\ pass' = newPass
       /\ analysisCache' = newCache
       /\ heap' = Collect(newHeap, newCache, newPass, threads)
       /\ lastRun' = [lastRun EXCEPT ![pod.id].hit = FALSE,
                                     ![pod.id].reported = Timestamps(newHeap[pass.result])]
       /\ lastStep' = [op |-> "cache", pod |-> pod.id, key |-> key, at |-> now,
                       cacheEnabled |-> cacheEnabled, ttl |-> cacheTTL, obj |-> pass.result,
                       passed |-> heap[pass.result],
                       fetchFailed |-> pass.err # "",
                       aiFailed |-> heap[pass.result].AIResult # <<>>
                                    /\ heap[pass.result].AIResult[1].Error # ""]
       /\ IF cacheEnabled
          THEN /\ lastPut' = Put1(lastPut, key,
                                  [diag |-> heap[pass.result], ttl |-> cacheTTL, at |-> now,
                                   pod |-> pod.id, restarts |-> RestartVector(pod),
                                   restartCount |-> maxRestartCount(pod)])
               /\ everCachedAt' = [everCachedAt EXCEPT ![pod.id] =
                                      IF heap[pass.result].AnalyzedAt > @
                                      THEN heap[pass.result].AnalyzedAt ELSE @]
          ELSE UNCHANGED <<lastPut, everCachedAt>>
    /\ UNCHANGED <<now, pods, annotations, podSleuthSpec, mux, threads>>

(* the keys of every pod of the list, ready or not *)
CurrentPodsAll(podList) == {getCacheKey(podList[n]) : n \in 1..Len(podList)}

(* the keys of the non-ready pods of the list (lines 259-264) *)
CurrentPods(podList) ==
    {getCacheKey(podList[n]) : n \in {m \in 1..Len(podList) : ~isPodReady(podList[m])}}

(* lines 258-265: after the loop, the entries of pods not in the non-ready list are removed *)
ReconcileCleanup ==
    /\ pass.pc = "pods"
    /\ pass.i > Len(pass.podList)
    /\ LET newCache == cleanupCache(analysisCache, CurrentPods(pass.podList))
           newPass  == [pass EXCEPT !.pc = "status"]
       IN
       /\ analysisCache' = newCache
       /\ pass' = newPass
       /\ heap' = Collect(heap, newCache, newPass, threads)
       /\ lastPut' = Restrict(lastPut, DOMAIN lastPut \cap CurrentPods(pass.podList))
       /\ lastStep' = [op |-> "cleanup", currentPods |-> CurrentPods(pass.podList),
                       before |-> DOMAIN analysisCache, stored |-> pass.stored]
    /\ UNCHANGED <<now, pods, annotations, podSleuthSpec, everCachedAt, lastRun,
                   mux, threads>>

(* the call goes on to the annotations whether the status was written or not *)
afterStatusUpdateAlways(ps, ok) ==
    IF ps.globalForceRefresh \/ ps.targetForcePod # ""
    THEN [IdlePass EXCEPT !.pc = "clear", !.req = ps.req,
                          !.globalForceRefresh = ps.globalForceRefresh,
                          !.targetForcePod = ps.targetForcePod]
    ELSE IdlePass

(* lines 269-275: where the call ps goes after Status().Update: it returns the error, or  *)
(* goes on to remove the annotations if it read one, or ends                              *)
afterStatusUpdate(ps, ok) ==
    IF ok /\ (ps.globalForceRefresh \/ ps.targetForcePod # "")
    THEN [IdlePass EXCEPT !.pc = "clear", !.req = ps.req,
                          !.globalForceRefresh = ps.globalForceRefresh,
                          !.targetForcePod = ps.targetForcePod]
    ELSE IdlePass

(* lines 267-272: the status is written, or the call ends with an error when it cannot be.  *)
(* The API server's copy of the status is not part of the model: lastRun records what each  *)
(* run reported.                                                                            *)
ReconcileStatusUpdate(ok) ==
    /\ pass.pc = "status"
    /\ LET newPass == afterStatusUpdate(pass, ok) IN
       /\ pass' = newPass
       /\ heap' = Collect(heap, analysisCache, newPass, threads)
       /\ lastStep' = [op |-> "status", req |-> pass.req, ok |-> ok]
    /\ UNCHANGED <<now, pods, annotations, podSleuthSpec, analysisCache,
                   lastPut, everCachedAt, lastRun, mux, threads>>

(* lines 274-298: the force-refresh annotations are removed from the latest version of the  *)
(* PodSleuth; ok is whether fetching and updating it succeed                                *)
ReconcileClearAnnotations(ok) ==
    /\ pass.pc = "clear"
    /\ annotations' = IF ok
                      THEN [annotations EXCEPT ![pass.req] =
                               Restrict(@, DOMAIN @ \ {AnnForceRefresh, AnnForceRefreshPod})]
                      ELSE annotations
    /\ pass' = IdlePass
    /\ lastStep' = NoStep
    /\ UNCHANGED <<now, pods, podSleuthSpec, analysisCache, heap,
                   lastPut, everCachedAt, lastRun, mux, threads>>

---------------------------------------------------------------------------
(* The operator: reconcile passes, the cluster and the dashboard *)

Next ==
    \/ Tick
    \/ \E p \in DOMAIN pods, init \in BOOLEAN, k \in 1..2 : ContainerRestart(p, init, k)
    \/ \E p \in DOMAIN pods : PodReadyChange(p)
    \/ \E b \in ForceRefreshBodies, u \in SUBSET DOMAIN annotations : handleForceRefresh(b, u)
    \/ \E g \in DOMAIN podSleuthSpec : ReconcileBegin(g)
    \/ \E g \in DOMAIN podSleuthSpec : ReconcileListError(g)
    \/ \E l \in LogOutcomes, a \in AIOutcomes : ReconcilePod(l, a)
    \/ ReconcileCache
    \/ ReconcileCleanup
    \/ \E ok \in BOOLEAN : ReconcileStatusUpdate(ok)
    \/ \E ok \in BOOLEAN : ReconcileClearAnnotations(ok)

Spec == Init /\ [][Next]_vars

---------------------------------------------------------------------------
(* Two PodSleuth resources, g1 selecting pod p1 and g2 selecting pod p2, reconciled by the *)
(* same PodSleuthReconciler and so sharing analysisCache.  Both cache with the default TTL *)
(* and run the pattern method.  The pods stay as they are: not ready, never restarted.     *)

GroupSpecs ==
    [g1 |-> [PodLabelSelector |-> <<{"p1"}>>,
             LogAnalysis |-> <<LogAnalysisConfig(<<>>, <<>>, <<"pattern">>)>>],
     g2 |-> [PodLabelSelector |-> <<{"p2"}>>,
             LogAnalysis |-> <<LogAnalysisConfig(<<>>, <<>>, <<"pattern">>)>>]]

InitGroups ==
    /\ pods = InitialPods
    /\ podSleuthSpec = GroupSpecs
    /\ annotations = [g \in DOMAIN podSleuthSpec |-> <<>>]
    /\ InitCommon

(* the Update of the dashboard succeeds on g1 only *)
NextGroups ==
    \/ Tick
    \/ \E b \in ForceRefreshBodies : handleForceRefresh(b, {"g1"})
    \/ \E g \in DOMAIN podSleuthSpec : ReconcileBegin(g)
    \/ \E g \in DOMAIN podSleuthSpec : ReconcileListError(g)
    \/ \E l \in LogOutcomes, a \in AIOutcomes : ReconcilePod(l, a)
    \/ ReconcileCache
    \/ ReconcileCleanup
    \/ \E ok \in BOOLEAN : ReconcileStatusUpdate(ok)
    \/ \E ok \in BOOLEAN : ReconcileClearAnnotations(ok)

SpecGroups == InitGroups /\ [][NextGroups]_vars

---------------------------------------------------------------------------
(* The cache on its own: getCachedAnalysis, setCachedAnalysis and cleanupCache called in  *)
(* any order, for the pods of a cluster with two pods                                      *)

(* what analysing pod p at time t hands to setCachedAnalysis: the logs of p1 show a refused *)
(* connection and the AI endpoint answers, the logs of p2 cannot be fetched                 *)
AnalyzedOnce ==
    [p1 |-> analyzeLogs(<<LogAnalysisConfig(<<>>, <<ShortTTL>>, <<"pattern", "ai">>)>>,
                        [err |-> "", lines |-> <<LineRefused>>],
                        [err |-> "", RootCause |-> "database is unreachable",
                         Confidence |-> 65, Model |-> "m1"], 0).result[1],
     p2 |-> FailureResult("failed to get pod logs: failed to stream logs: connection lost", 0)]

Diagnoses(p, t) == {[AnalyzedOnce[p] EXCEPT !.AnalyzedAt = t]}

CacheTTLs == {ShortTTL}

InitCache ==
    /\ pods = InitialPods
    /\ podSleuthSpec = [g1 |-> [PodLabelSelector |-> <<>>,
                                LogAnalysis |-> <<LogAnalysisConfig(<<>>, <<ShortTTL>>,
                                                                    <<"pattern", "ai">>)>>]]
    /\ annotations = [g \in DOMAIN podSleuthSpec |-> <<>>]
    /\ InitCommon

(* r.getCachedAnalysis(&pod, cacheTTL) *)
CacheGet(p) ==
    LET pod == PodObject(p, pods[p])
        get == getCachedAnalysis(analysisCache, pod, now)
    IN
    /\ analysisCache' = get.cache
    /\ heap' = Collect(heap, get.cache, pass, threads)
    /\ lastStep' = [op |-> "get", pod |-> p, key |-> getCacheKey(pod), at |-> now,
                    restartCount |-> maxRestartCount(pod), result |-> get.result]
    /\ UNCHANGED <<now, pods, annotations, podSleuthSpec, pass, lastPut, everCachedAt,
                   lastRun, mux, threads>>

(* r.setCachedAnalysis(&pod, result, cacheTTL) with a fresh result d *)
CachePut(p, d, cacheTTL) ==
    LET pod == PodObject(p, pods[p])
        obj == NewObject(heap)
        put == setCachedAnalysis(analysisCache, Put1(heap, obj, d), pod, obj, cacheTTL, now)
    IN
    /\ analysisCache' = put.cache
    /\ heap' = Collect(put.heap, put.cache, pass, threads)
    /\ lastPut' = Put1(lastPut, getCacheKey(pod),
                       [diag |-> d, ttl |-> cacheTTL, at |-> now, pod |-> p,
                        restarts |-> RestartVector(pod),
                        restartCount |-> maxRestartCount(pod)])
    /\ lastStep' = [op |-> "put", pod |-> p, key |-> getCacheKey(pod), at |-> now,
                    ttl |-> cacheTTL, obj |-> obj]
    /\ UNCHANGED <<now, pods, annotations, podSleuthSpec, pass, everCachedAt,
                   lastRun, mux, threads>>

(* r.cleanupCache(currentPods), currentPods built from the pods S of a pass's list *)
CacheSweep(S) ==
    LET currentPods == CurrentPods(ListPods(AllPods, <<S>>))
        newCache    == cleanupCache(analysisCache, currentPods)
    IN
    /\ analysisCache' = newCache
    /\ heap' = Collect(heap, newCache, pass, threads)
    /\ lastPut' = Restrict(lastPut, DOMAIN lastPut \cap currentPods)
    /\ lastStep' = [op |-> "sweep", currentPods |-> currentPods,
                    before |-> DOMAIN analysisCache]
    /\ UNCHANGED <<now, pods, annotations, podSleuthSpec, pass, everCachedAt,
                   lastRun, mux, threads>>

NextCache ==
    \/ Tick
    \/ ContainerRestart("p1", FALSE, 1)
    \/ PodReadyChange("p2")
    \/ \E p \in DOMAIN pods : CacheGet(p)
    \/ \E p \in DOMAIN pods, cacheTTL \in CacheTTLs :
          \E d \in Diagnoses(p, now) : CachePut(p, d, cacheTTL)
    \/ \E S \in SUBSET DOMAIN pods : CacheSweep(S)

SpecCache == InitCache /\ [][NextCache]_vars

---------------------------------------------------------------------------
(* The cache under concurrent callers: goroutines call getCachedAnalysis,                 *)
(* setCachedAnalysis and cleanupCache, one statement at a time                            *)

Goroutines == {1, 2}

IdleThread ==
    [pc |-> "idle", pod |-> "", result |-> 0, passed |-> <<>>, cacheTTL |-> 0, at |-> 0,
     ret |-> 0, currentPods |-> {}]

InitLock ==
    /\ pods = Restrict(InitialPods, {"p1"})
    /\ podSleuthSpec = [g1 |-> [PodLabelSelector |-> <<>>,
                                LogAnalysis |-> <<LogAnalysisConfig(<<>>, <<ShortTTL>>,
                                                                    <<"pattern", "ai">>)>>]]
    /\ annotations = [g \in DOMAIN podSleuthSpec |-> <<>>]
    /\ now = 0
    /\ analysisCache = <<>>
    /\ heap = <<>>
    /\ pass = IdlePass
    /\ lastStep = NoStep
    /\ lastPut = <<>>
    /\ everCachedAt = [p \in DOMAIN pods |-> ZeroTime]
    /\ lastRun = [p \in DOMAIN pods |-> [hit |-> FALSE, reported |-> <<>>, forcedAt |-> ZeroTime]]
    /\ mux = [readers |-> 0, writer |-> FALSE]
    /\ threads = [t \in Goroutines |-> IdleThread]

(* the goroutine's statements that run with the write lock, and with the read lock, held *)
WriteSection == {"put.cachedAt", "put.expiresAt", "put.store", "put.unlock",
                 "sweep.delete", "sweep.unlock"}

ReadSection == {"get.read", "get.runlock"}

(* line 552: r.analysisCacheMux.RLock() *)
getCachedAnalysisRLock(m) == RLock(m)

(* a store that does not wait for the lock *)
setCachedAnalysisNoLock(m) == [ok |-> TRUE, mux |-> [m EXCEPT !.writer = TRUE]]

(* line 575: r.analysisCacheMux.Lock() *)
setCachedAnalysisLock(m) == Lock(m)

(* line 617: r.analysisCacheMux.Lock() *)
cleanupCacheLock(m) == Lock(m)

(* goroutine t calls getCachedAnalysis for pod p *)
GetCall(t, p) ==
    /\ threads[t].pc = "idle"
    /\ threads' = [threads EXCEPT ![t] = [IdleThread EXCEPT !.pc = "get.rlock", !.pod = p]]
    /\ UNCHANGED <<now, pods, annotations, podSleuthSpec, analysisCache, heap, pass,
                   lastStep, lastPut, everCachedAt, lastRun, mux>>

GetRLock(t) ==
    /\ threads[t].pc = "get.rlock"
    /\ getCachedAnalysisRLock(mux).ok
    /\ mux' = getCachedAnalysisRLock(mux).mux
    /\ threads' = [threads EXCEPT ![t].pc = "get.read"]
    /\ UNCHANGED <<now, pods, annotations, podSleuthSpec, analysisCache, heap, pass,
                   lastStep, lastPut, everCachedAt, lastRun>>

(* lines 555-571: the lookup and the expiry check *)
GetRead(t) ==
    /\ threads[t].pc = "get.read"
    /\ LET pod == PodObject(threads[t].pod, pods[threads[t].pod])
           get == getCachedAnalysis(analysisCache, pod, now)
       IN
       /\ analysisCache' = get.cache
       /\ threads' = [threads EXCEPT ![t].pc = "get.runlock", ![t].ret = get.result,
                                     ![t].at = now]
    /\ UNCHANGED <<now, pods, annotations, podSleuthSpec, heap, pass,
                   lastStep, lastPut, everCachedAt, lastRun, mux>>

(* the deferred RUnlock; the call returns *)
GetRUnlock(t) ==
    /\ threads[t].pc = "get.runlock"
    /\ mux' = RUnlock(mux)
    /\ threads' = [threads EXCEPT ![t] = IdleThread]
    /\ heap' = Collect(heap, analysisCache, pass, threads')
    /\ UNCHANGED <<now, pods, annotations, podSleuthSpec, analysisCache, pass,
                   lastStep, lastPut, everCachedAt, lastRun>>

(* goroutine t calls setCachedAnalysis for pod p with a fresh result d *)
PutCall(t, p, d, cacheTTL) ==
    /\ threads[t].pc = "idle"
    /\ threads' = [threads EXCEPT ![t] = [IdleThread EXCEPT !.pc = "put.lock", !.pod = p,
                                                            !.result = NewObject(heap),
                                                            !.passed = <<d>>,
                                                            !.cacheTTL = cacheTTL]]
    /\ heap' = Put1(heap, NewObject(heap), d)
    /\ UNCHANGED <<now, pods, annotations, podSleuthSpec, analysisCache, pass,
                   lastStep, lastPut, everCachedAt, lastRun, mux>>

(* lines 575, 591-593: the lock is taken and time.Now() is read *)
PutLock(t) ==
    /\ threads[t].pc = "put.lock"
    /\ setCachedAnalysisLock(mux).ok
    /\ mux' = setCachedAnalysisLock(mux).mux
    /\ threads' = [threads EXCEPT ![t].pc = "put.cachedAt", ![t].at = now]
    /\ UNCHANGED <<now, pods, annotations, podSleuthSpec, analysisCache, heap, pass,
                   lastStep, lastPut, everCachedAt, lastRun>>

(* what the call of goroutine t makes of the cache and of the heap *)
PutOf(t) ==
    setCachedAnalysis(analysisCache, heap, PodObject(threads[t].pod, pods[threads[t].pod]),
                      threads[t].result, threads[t].cacheTTL, threads[t].at)

(* line 596: result.CachedAt = metav1.NewTime(now) *)
PutCachedAt(t) ==
    /\ threads[t].pc = "put.cachedAt"
    /\ heap' = [heap EXCEPT ![threads[t].result].CachedAt = PutOf(t).heap[threads[t].result].CachedAt]
    /\ threads' = [threads EXCEPT ![t].pc = "put.expiresAt"]
    /\ UNCHANGED <<now, pods, annotations, podSleuthSpec, analysisCache, pass,
                   lastStep, lastPut, everCachedAt, lastRun, mux>>

(* lines 597-598: result.CacheExpiresAt = &cacheExpiresAtTime *)
PutExpiresAt(t) ==
    /\ threads[t].pc = "put.expiresAt"
    /\ heap' = PutOf(t).heap
    /\ threads' = [threads EXCEPT ![t].pc = "put.store"]
    /\ UNCHANGED <<now, pods, annotations, podSleuthSpec, analysisCache, pass,
                   lastStep, lastPut, everCachedAt, lastRun, mux>>

(* lines 600-608: r.analysisCache[cacheKey] = &CachedAnalysisResult{...} *)
PutStore(t) ==
    /\ threads[t].pc = "put.store"
    /\ LET pod == PodObject(threads[t].pod, pods[threads[t].pod]) IN
       /\ analysisCache' = PutOf(t).cache
       /\ lastPut' = Put1(lastPut, getCacheKey(pod),
                          [diag |-> threads[t].passed[1], ttl |-> threads[t].cacheTTL,
                           at |-> threads[t].at, pod |-> threads[t].pod,
                           restarts |-> RestartVector(pod),
                           restartCount |-> maxRestartCount(pod)])
    /\ threads' = [threads EXCEPT ![t].pc = "put.unlock"]
    /\ UNCHANGED <<now, pods, annotations, podSleuthSpec, heap, pass,
                   lastStep, everCachedAt, lastRun, mux>>

(* the deferred Unlock; the call returns *)
PutUnlock(t) ==
    /\ threads[t].pc = "put.unlock"
    /\ mux' = Unlock(mux)
    /\ threads' = [threads EXCEPT ![t] = IdleThread]
    /\ heap' = Collect(heap, analysisCache, pass, threads')
    /\ UNCHANGED <<now, pods, annotations, podSleuthSpec, analysisCache, pass,
                   lastStep, lastPut, everCachedAt, lastRun>>

(* goroutine t calls cleanupCache with the keys of the pods S *)
SweepCall(t, S) ==
    /\ threads[t].pc = "idle"
    /\ threads' = [threads EXCEPT ![t] =
                      [IdleThread EXCEPT !.pc = "sweep.lock",
                                         !.currentPods = CurrentPods(ListPods(AllPods, <<S>>))]]
    /\ UNCHANGED <<now, pods, annotations, podSleuthSpec, analysisCache, heap, pass,
                   lastStep, lastPut, everCachedAt, lastRun, mux>>

SweepLock(t) ==
    /\ threads[t].pc = "sweep.lock"
    /\ cleanupCacheLock(mux).ok
    /\ mux' = cleanupCacheLock(mux).mux
    /\ threads' = [threads EXCEPT ![t].pc = "sweep.delete"]
    /\ UNCHANGED <<now, pods, annotations, podSleuthSpec, analysisCache, heap, pass,
                   lastStep, lastPut, everCachedAt, lastRun>>

(* lines 625-630: the loop that deletes *)
SweepDelete(t) ==
    /\ threads[t].pc = "sweep.delete"
    /\ analysisCache' = cleanupCache(analysisCache, threads[t].currentPods)
    /\ lastPut' = Restrict(lastPut, DOMAIN lastPut \cap threads[t].currentPods)
    /\ threads' = [threads EXCEPT ![t].pc = "sweep.unlock"]
    /\ UNCHANGED <<now, pods, annotations, podSleuthSpec, heap, pass,
                   lastStep, everCachedAt, lastRun, mux>>

SweepUnlock(t) ==
    /\ threads[t].pc = "sweep.unlock"
    /\ mux' = Unlock(mux)
    /\ threads' = [threads EXCEPT ![t] = IdleThread]
    /\ heap' = Collect(heap, analysisCache, pass, threads')
    /\ UNCHANGED <<now, pods, annotations, podSleuthSpec, analysisCache, pass,
                   lastStep, lastPut, everCachedAt, lastRun>>

NextLock ==
    \/ Tick
    \/ \E t \in Goroutines, p \in DOMAIN pods : GetCall(t, p)
    \/ \E t \in Goroutines : GetRLock(t)
    \/ \E t \in Goroutines : GetRead(t)
    \/ \E t \in Goroutines : GetRUnlock(t)
    \/ \E t \in Goroutines, p \in DOMAIN pods, cacheTTL \in CacheTTLs :
          \E d \in Diagnoses(p, now) : PutCall(t, p, d, cacheTTL)
    \/ \E t \in Goroutines : PutLock(t)
    \/ \E t \in Goroutines : PutCachedAt(t)
    \/ \E t \in Goroutines : PutExpiresAt(t)
    \/ \E t \in Goroutines : PutStore(t)
    \/ \E t \in Goroutines : PutUnlock(t)
    \/ \E t \in Goroutines, S \in SUBSET DOMAIN pods : SweepCall(t, S)
    \/ \E t \in Goroutines : SweepLock(t)
    \/ \E t \in Goroutines : SweepDelete(t)
    \/ \E t \in Goroutines : SweepUnlock(t)

SpecLock == InitLock /\ [][NextLock]_vars

---------------------------------------------------------------------------
(* The log analysis on its own: analyzeLogs run one method at a time on what the log      *)
(* source and the AI endpoint answer, and analyzeWithPatterns, mergeAnalysisResults and    *)
(* calculateAIConfidence called on their own, one call per behaviour.  `pass` is the       *)
(* analyzeLogs call in flight, `lastStep` the call of one of the three functions with its  *)
(* arguments and result.                                                                   *)

(* custom rules: one with an empty root cause, one that does not compile, priorities out  *)
(* of declaration order                                                                    *)
CustomPatterns ==
    << Pattern("Refused", ReConnectionRefused, "", 1),
       Pattern("Broken", "(unclosed", "never matched", 50),
       Pattern("Kafka", ReKafkaBroker, "kafka is down", 20),
       Pattern("Database", ReDatabaseConnection, "database is saturated", 1) >>

PatternSets == { <<>>, CustomPatterns, <<Pattern("Broken", "(unclosed", "never matched", 50)>> }

MethodLists ==
    { <<"pattern">>, <<"ai">>, <<"pattern", "ai">>, <<"ai", "pattern">>,
      <<"ai", "unknown", "pattern">>, <<"unknown">>, <<>> }

(* MethodConfig: PatternConfig and AIConfig are <<>> (nil) or <<the block>> *)
MethodConfig(type, patternConfig, aiConfig) ==
    [Type |-> type, PatternConfig |-> patternConfig, AIConfig |-> aiConfig]

(* methodConfigs: the AI method with its own endpoint, then the pattern method with its *)
(* own rules                                                                             *)
AIThenPattern ==
    << MethodConfig("ai", <<>>, <<[Endpoint |-> "http://ollama.example/api/generate",
                                   Model |-> "qwen3:8b"]>>),
       MethodConfig("pattern", <<[Patterns |-> CustomPatterns]>>, <<>>) >>

(* the LogAnalysisConfig values of the model *)
AnalysisConfigs ==
    { [LogAnalysisConfig(<<>>, <<>>, ms) EXCEPT !.Method = m, !.Patterns = ps, !.AIEndpoint = e] :
        ms \in MethodLists, m \in {"", "ai"}, ps \in {<<>>, CustomPatterns},
        e \in {"", "http://ai.example/v1/chat/completions"} }
    \cup { [LogAnalysisConfig(<<>>, <<>>, ms) EXCEPT !.MethodConfigs = AIThenPattern] :
             ms \in {<<>>, <<"pattern", "ai">>} }

(* config as analyzeLogs receives it: nil, disabled or enabled *)
AnalysisConfigArgs ==
    { <<>>, <<[LogAnalysisConfig(<<>>, <<>>, <<"pattern">>) EXCEPT !.Enabled = FALSE]>> }
    \cup { <<c>> : c \in AnalysisConfigs }

(* n lines that all differ and all report a refused connection *)
ManyLines(n) == [k \in 1..n |-> LineAttempt(k)]

(* 12 lines: 7 that match no default rule, then 4 that match ConnectionRefused and one *)
(* that matches DatabaseConnectionError, the latter being the k-th of the five          *)
ScenarioLines(k) ==
    [j \in 1..12 |-> IF j <= 7 THEN LineOther
                     ELSE IF j - 7 = k THEN LineDatabase ELSE LineAttempt(j - 7)]

(* what getPodLogs can answer *)
AnalysisLogs ==
    { [err |-> "failed to stream logs: connection lost", lines |-> <<>>],
      [err |-> "", lines |-> <<>>],
      [err |-> "", lines |-> <<LineOther>>],
      [err |-> "", lines |-> <<LineRefused>>],
      [err |-> "", lines |-> <<LineRefused, LineKafka>>],
      [err |-> "", lines |-> <<LineRefused, LineOther, LineRefused>>],
      [err |-> "", lines |-> ManyLines(MaxLines)],
      [err |-> "", lines |-> ManyLines(MaxLines) \o <<LineKafka>>] }

(* what the AI endpoint can answer *)
AnalysisAIOutcomes ==
    { [err |-> "AI endpoint returned status 500: boom", RootCause |-> "", Confidence |-> 0, Model |-> ""] }
    \cup { [err |-> "", RootCause |-> "database is unreachable", Confidence |-> a, Model |-> "m1"] :
             a \in {40, 65, 85} }

InitAnalysis ==
    /\ pods = Restrict(InitialPods, {"p1"})
    /\ podSleuthSpec = [g1 |-> [PodLabelSelector |-> <<>>, LogAnalysis |-> <<>>]]
    /\ annotations = [g \in DOMAIN podSleuthSpec |-> <<>>]
    /\ InitCommon

UnchangedByAnalysis ==
    UNCHANGED <<now, pods, annotations, podSleuthSpec, analysisCache, heap, lastPut,
                everCachedAt, lastRun, mux, threads>>

(* analyzeLogs, lines 118-149: up to the loop over the methods *)
AnalyzeBegin(config, logOut, aiOut) ==
    /\ pass.pc = "idle"
    /\ lastStep = NoStep
    /\ UNCHANGED lastStep
    /\ pass' = IF config = <<>> \/ ~config[1].Enabled
               THEN [pc |-> "done", ran |-> FALSE, logOut |-> logOut,
                     out |-> analyzeLogs(config, logOut, aiOut, now)]
               ELSE IF logOut.err # "" \/ Len(logOut.lines) = 0
               THEN [pc |-> "done", ran |-> FALSE, logOut |-> logOut,
                     out |-> analyzeLogs(config, logOut, aiOut, now)]
               ELSE [pc |-> "methods", config |-> config[1], methods |-> methodsOf(config[1]),
                     logLines |-> logOut.lines, aiOut |-> aiOut, i |-> 1, acc |-> NoVerdicts,
                     steps |-> <<>>, supplied |-> <<>>]
    /\ UnchangedByAnalysis

(* what the i-th iteration of the loop did: the method, whether it was run, whether it  *)
(* failed, the verdict it returned (<<>> if none) and the lines it supplied              *)
StepRecord(method, pr, ar) ==
    IF method = "pattern"
    THEN [method |-> method, run |-> TRUE, failed |-> FALSE, verdict |-> pr,
          lines |-> IF pr # <<>> THEN pr[1].ErrorLines ELSE <<>>]
    ELSE IF method = "ai"
    THEN [method |-> method, run |-> TRUE, failed |-> ar.err # "", verdict |-> ar.result,
          lines |-> IF ar.err = "" /\ ar.result # <<>> THEN ar.result[1].ErrorLines ELSE <<>>]
    ELSE [method |-> method, run |-> FALSE, failed |-> FALSE, verdict |-> <<>>, lines |-> <<>>]

(* one iteration of the loop over the methods, lines 152-198 *)
AnalyzeMethod ==
    /\ pass.pc = "methods"
    /\ MoreMethods(pass.methods, pass.i, pass.acc)
    /\ pass' = [pass EXCEPT
                  !.i = @ + 1,
                  !.acc = MethodStep(pass.methods[pass.i], pass.acc,
                                     analyzeWithPatterns(pass.logLines, pass.config),
                                     analyzeWithAI(pass.logLines, pass.config, pass.aiOut)),
                  !.steps = Append(@, StepRecord(pass.methods[pass.i],
                                                 analyzeWithPatterns(pass.logLines, pass.config),
                                                 analyzeWithAI(pass.logLines, pass.config, pass.aiOut))),
                  !.supplied = @ \o StepRecord(pass.methods[pass.i],
                                               analyzeWithPatterns(pass.logLines, pass.config),
                                               analyzeWithAI(pass.logLines, pass.config, pass.aiOut)).lines]
    /\ UNCHANGED lastStep
    /\ UnchangedByAnalysis

(* after the loop, lines 200-207 *)
AnalyzeMerge ==
    /\ pass.pc = "methods"
    /\ ~MoreMethods(pass.methods, pass.i, pass.acc)
    /\ pass' = [pc |-> "done", ran |-> TRUE, methods |-> pass.methods, steps |-> pass.steps,
                supplied |-> pass.supplied, i |-> pass.i,
                out |-> finishAnalysis(mergeVerdicts(pass.acc, pass.methods), now)]
    /\ UNCHANGED lastStep
    /\ UnchangedByAnalysis

(* verdicts handed to mergeAnalysisResults *)
PatternVerdicts ==
    { <<>> } \cup { <<PatternVerdict("ConnectionRefused", 10, "connection refused", p, "")>> :
                      p \in {30, 40, 50, 55, 65, 70, 80} }

AIVerdicts ==
    { <<>>, <<aiErrorVerdict("AI endpoint returned status 500: boom")>> }
    \cup { <<AIVerdict("m1", "database is unreachable", a, "")>> :
             a \in {10, 30, 49, 50, 65, 80, 81, 85, 100} }

(* mergeAnalysisResults(patternResult, aiResult, methods, errorLines) *)
MergeCall(patternResult, aiResult, methods, errorLines) ==
    /\ pass.pc = "idle"
    /\ lastStep = NoStep
    /\ lastStep' = [op |-> "merge", patternResult |-> patternResult, aiResult |-> aiResult,
                    methods |-> methods, errorLines |-> errorLines,
                    result |-> mergeAnalysisResults(patternResult, aiResult, methods, errorLines)]
    /\ UNCHANGED pass
    /\ UnchangedByAnalysis

(* the log lines handed to analyzeWithPatterns: up to three lines of four kinds, many *)
(* lines of one kind, and the twelve lines of ScenarioLines                            *)
LineKinds == {LineRefused, LineKafka, LineDatabase, LineOther}

PatternLogs ==
    UNION { [1..n -> LineKinds] : n \in 0..3 }
    \cup { ManyLines(n) : n \in {1, 2, 3, MaxLines} }
    \cup { ScenarioLines(k) : k \in 1..5 }

(* analyzeWithPatterns(logLines, config) *)
PatternsCall(logLines, patterns) ==
    /\ pass.pc = "idle"
    /\ lastStep = NoStep
    /\ LET config == [LogAnalysisConfig(<<>>, <<>>, <<"pattern">>) EXCEPT !.Patterns = patterns] IN
       lastStep' = [op |-> "patterns", logLines |-> logLines,
                    declared |-> orDefaultPatterns(customPatterns(config)),
                    result |-> analyzeWithPatterns(logLines, config)]
    /\ UNCHANGED pass
    /\ UnchangedByAnalysis

(* the AI answers calculateAIConfidence is called on, as what the function reads of them: *)
(* an answer is as long as the words it contains, less the few letters that a word can     *)
(* share with the next one                                                                 *)
CertaintyWords == 14

ShortestWords(n) ==
    CASE n = 0 -> 0 [] n = 1 -> 6 [] n = 2 -> 12 [] n = 3 -> 18 [] n = 4 -> 24
      [] n = 5 -> 31 [] n = 6 -> 38 [] n = 7 -> 46 [] n = 8 -> 55 [] n = 9 -> 64
      [] n = 10 -> 74 [] n = 11 -> 84 [] n = 12 -> 97 [] n = 13 -> 114 [] OTHER -> 132

AIAnswers ==
    { t \in [length : {1, 19, 20, 50, 51, 100, 101, 200, 201}, uncertain : BOOLEAN,
             certaintyCount : 0..CertaintyWords, structured : BOOLEAN, generic : BOOLEAN] :
        t.length + 3 >= ShortestWords(t.certaintyCount)
                    + (IF t.uncertain THEN 5 ELSE 0)
                    + (IF t.structured THEN 2 ELSE 0)
                    + (IF t.generic THEN 7 ELSE 0) }

(* calculateAIConfidence(rootCause) *)
ConfidenceCall(rootCause) ==
    /\ pass.pc = "idle"
    /\ lastStep = NoStep
    /\ lastStep' = [op |-> "confidence", rootCause |-> rootCause,
                    confidence |-> calculateAIConfidence(rootCause)]
    /\ UNCHANGED pass
    /\ UnchangedByAnalysis

(* what the kubelet reports of a container: one that is ready is running *)
KubeletStatuses(name) ==
    { DetailedStatus(name, FALSE, StateWaiting("ImagePullBackOff", "Back-off pulling image"), NoState),
      DetailedStatus(name, FALSE, StateWaiting("ErrImagePull", "pull access denied"), NoState),
      DetailedStatus(name, FALSE, StateWaiting("CrashLoopBackOff", ""), StateTerminated("Error", "", 1)),
      DetailedStatus(name, FALSE, StateWaiting("", ""), NoState),
      DetailedStatus(name, FALSE, StateWaiting("", ""), StateTerminated("Error", "", 1)),
      DetailedStatus(name, FALSE, StateTerminated("OOMKilled", "", 137), NoState),
      DetailedStatus(name, FALSE, StateTerminated("Error", "boom", 1), NoState),
      DetailedStatus(name, FALSE, StateTerminated("", "", 1), NoState),
      DetailedStatus(name, FALSE, StateTerminated("Completed", "", 0), NoState),
      DetailedStatus(name, FALSE, StateRunning, NoState),
      DetailedStatus(name, FALSE, StateRunning, StateTerminated("Error", "", 1)),
      DetailedStatus(name, TRUE, StateRunning, NoState),
      DetailedStatus(name, FALSE, NoState, NoState),
      DetailedStatus(name, FALSE, NoState, StateTerminated("Error", "", 1)) }

(* the statuses of the containers "app" and "sidecar", of which the kubelet has reported *)
(* none, the first or both                                                               *)
StatusLists ==
    { <<>> } \cup { <<a>> : a \in KubeletStatuses("app") }
    \cup { <<a, b>> : a \in KubeletStatuses("app"), b \in KubeletStatuses("sidecar") }

(* an init container that failed, one that is being started, one that completed *)
InitStatusLists ==
    { <<>>,
      <<DetailedStatus("init", FALSE, StateTerminated("Error", "migration failed", 1), NoState)>>,
      <<DetailedStatus("init", FALSE, StateWaiting("", ""), NoState)>>,
      <<DetailedStatus("init", TRUE, StateTerminated("Completed", "", 0), NoState)>> }

NotReadyConditions ==
    << [Type |-> "PodScheduled", Status |-> "True", Reason |-> "", Message |-> ""],
       [Type |-> "Ready", Status |-> "False", Reason |-> "ContainersNotReady",
        Message |-> "containers with unready status: [app]"] >>

(* a pod that is not ready, with the fields the investigation and getPodLogs read *)
DetailedPod(containers, statuses, initStatuses) ==
    [Namespace |-> "ns", Name |-> "web",
     Spec |-> [Containers |-> containers],
     Status |-> [ContainerStatuses |-> statuses, InitContainerStatuses |-> initStatuses,
                 Conditions |-> NotReadyConditions]]

(* pods declaring "app" and "sidecar", and a pod object that declares no container *)
DetailedPods ==
    { DetailedPod(<<[Name |-> "app"], [Name |-> "sidecar"]>>, ss, is) :
        ss \in StatusLists, is \in InitStatusLists }
    \cup { DetailedPod(<<>>, <<>>, <<>>) }

(* what the log source answers for each container *)
LogStreams ==
    { [app |-> [err |-> "", lines |-> <<LineRefused>>],
       sidecar |-> [err |-> "", lines |-> <<LineKafka>>]],
      [app |-> [err |-> "failed to stream logs: connection lost", lines |-> <<>>],
       sidecar |-> [err |-> "", lines |-> <<>>]] }

(* investigatePodFailure(pod) *)
InvestigateCall(pod) ==
    /\ pass.pc = "idle"
    /\ lastStep = NoStep
    /\ lastStep' = [op |-> "investigate", pod |-> pod, found |-> investigatePodFailure(pod)]
    /\ UNCHANGED pass
    /\ UnchangedByAnalysis

(* analyzeLogs(ctx, k8sClient, pod, config) with the pattern method, up to the log lines *)
(* it analyzes: the container getPodLogs reads, what getPodLogs returns and what         *)
(* analyzeLogs returns                                                                   *)
FetchCall(pod, stream, aiOut) ==
    /\ pass.pc = "idle"
    /\ lastStep = NoStep
    /\ lastStep' = [op |-> "logs", pod |-> pod, stream |-> stream,
                    container |-> containerToAnalyze(pod),
                    logOut |-> getPodLogs(pod, stream),
                    out |-> analyzeLogs(<<LogAnalysisConfig(<<>>, <<>>, <<"pattern">>)>>,
                                        getPodLogs(pod, stream), aiOut, now)]
    /\ UNCHANGED pass
    /\ UnchangedByAnalysis

NextAnalysis ==
    \/ \E config \in AnalysisConfigArgs, logOut \in AnalysisLogs, aiOut \in AnalysisAIOutcomes :
          AnalyzeBegin(config, logOut, aiOut)
    \/ AnalyzeMethod
    \/ AnalyzeMerge
    \/ \E patternResult \in PatternVerdicts, aiResult \in AIVerdicts,
          methods \in {<<>>, <<"pattern", "ai">>, <<"unknown">>},
          errorLines \in {<<>>, <<LineRefused, LineRefused>>, <<LineKafka, LineRefused>>} :
          MergeCall(patternResult, aiResult, methods, errorLines)
    \/ \E logLines \in PatternLogs, patterns \in PatternSets : PatternsCall(logLines, patterns)
    \/ \E rootCause \in AIAnswers : ConfidenceCall(rootCause)
    \/ \E pod \in DetailedPods : InvestigateCall(pod)
    \/ \E pod \in DetailedPods, stream \in LogStreams, aiOut \in AnalysisAIOutcomes :
          pod.Status.InitContainerStatuses = <<>> /\ aiOut.err # "" /\ FetchCall(pod, stream, aiOut)

SpecAnalysis == InitAnalysis /\ [][NextAnalysis]_vars

---------------------------------------------------------------------------
(* Properties *)

(* the pod p as the client returns it now *)
PodNow(p) == PodObject(p, pods[p])

(* the result of the last store under a key, as the cache hands it out *)
Stamped(lp) == [lp.diag EXCEPT !.CachedAt = lp.at, !.CacheExpiresAt = <<lp.at + lp.ttl>>]

(* C1: for a fixed unit the keys of two different highest restart counts differ, and a    *)
(* lookup made with the key of a later restart count never returns a result that was      *)
(* stored under the key of an earlier one: an entry of the unit stored under another      *)
(* restart count does not sit under the unit's current key, and what a lookup returns     *)
(* was last stored for the same unit at the same restart count.                           *)
C1_KeyPerRestartCount ==
    /\ \A p \in DOMAIN pods : \A k \in DOMAIN analysisCache :
          (analysisCache[k].PodUID = PodMeta[p].UID
           /\ analysisCache[k].RestartCount # maxRestartCount(PodNow(p)))
          => k # getCacheKey(PodNow(p))
    /\ (lastStep.op = "get" /\ lastStep.result # 0)
          => /\ lastStep.key \in DOMAIN lastPut
             /\ lastPut[lastStep.key].pod = lastStep.pod
             /\ lastPut[lastStep.key].restartCount = lastStep.restartCount

(* a lookup misses although an unexpired entry of the same unit, stored under an earlier *)
(* restart count, is in the cache                                                        *)
C1_Witness ==
    /\ lastStep.op = "get"
    /\ lastStep.result = 0
    /\ \E k \in DOMAIN analysisCache :
          /\ analysisCache[k].PodUID = PodMeta[lastStep.pod].UID
          /\ analysisCache[k].RestartCount < lastStep.restartCount
          /\ lastStep.at <= analysisCache[k].ExpiresAt

(* C2: whenever any container or init container of a unit restarts, whichever it is, the *)
(* unit's key changes, so that the result cached before the restart is not returned by a *)
(* later lookup: a hit returns a result stored when every restart count of the unit was  *)
(* what it is at the lookup.                                                             *)
C2_AnyRestartInvalidates ==
    (lastStep.op = "pod" /\ lastStep.hit)
        => /\ lastStep.key \in DOMAIN lastPut
           /\ lastPut[lastStep.key].restarts = lastStep.restarts

(* C3: after a store under a key with a TTL at time cachedAt, and no later store or sweep *)
(* of that key, a lookup returns the stored result with cachedAt and expiresAt filled in  *)
(* at every time up to and including cachedAt + ttl, and misses at every later time.      *)
C3_GetAfterPut ==
    (lastStep.op = "get" /\ lastStep.key \in DOMAIN lastPut)
        => LET lp == lastPut[lastStep.key] IN
           IF lastStep.at <= lp.at + lp.ttl
           THEN /\ lastStep.result # 0
                /\ heap[lastStep.result] = Stamped(lp)
                /\ heap[lastStep.result].CachedAt = lp.at
                /\ heap[lastStep.result].CacheExpiresAt = <<lp.at + lp.ttl>>
           ELSE lastStep.result = 0

(* a lookup hits at the very time the entry expires *)
C3_Witness ==
    /\ lastStep.op = "get"
    /\ lastStep.result # 0
    /\ lastStep.key \in DOMAIN lastPut
    /\ lastPut[lastStep.key].ttl > 0
    /\ lastStep.at = lastPut[lastStep.key].at + lastPut[lastStep.key].ttl

(* C4: a sweep removes exactly the entries whose key is not among the live keys: the keys *)
(* after it are the keys before it that are live, every entry kept is unchanged, and the  *)
(* cache then holds at most one entry per unit.                                            *)
C4_SweepExact ==
    [][lastStep'.op = "sweep"
          => /\ DOMAIN analysisCache' = DOMAIN analysisCache \cap lastStep'.currentPods
             /\ \A k \in DOMAIN analysisCache' :
                   /\ analysisCache'[k] = analysisCache[k]
                   /\ heap'[analysisCache'[k].Result] = heap[analysisCache[k].Result]
             /\ \A p \in DOMAIN pods :
                   Cardinality({k \in DOMAIN analysisCache' :
                                   analysisCache'[k].PodUID = PodMeta[p].UID}) <= 1]_vars

(* a sweep has removed an entry and kept another *)
C4_Witness ==
    /\ lastStep.op = "sweep"
    /\ lastStep.before \ DOMAIN analysisCache # {}
    /\ DOMAIN analysisCache # {}

(* C5: under any interleaving of lookups, stores and sweeps of concurrent callers, no two *)
(* writers are in the map at the same time, no reader is in it together with a writer,    *)
(* and a lookup returns nothing or the complete result (both timestamps filled in) of the *)
(* most recent store under its key that no sweep removed.                                 *)
C5_Atomic ==
    /\ Cardinality({t \in DOMAIN threads : threads[t].pc \in WriteSection}) <= 1
    /\ (\E t \in DOMAIN threads : threads[t].pc \in WriteSection)
          => ~ \E t \in DOMAIN threads : threads[t].pc \in ReadSection
    /\ \A t \in DOMAIN threads :
          (threads[t].pc = "get.runlock" /\ threads[t].ret # 0)
          => LET key == getCacheKey(PodNow(threads[t].pod)) IN
             /\ key \in DOMAIN lastPut
             /\ heap[threads[t].ret] = Stamped(lastPut[key])
             /\ heap[threads[t].ret].CacheExpiresAt # <<>>

(* a lookup holds a result it found while a store of another goroutine waits for the lock *)
C5_Witness ==
    \E t, u \in DOMAIN threads :
        /\ threads[t].pc = "get.runlock"
        /\ threads[t].ret # 0
        /\ threads[u].pc = "put.lock"
        /\ threads[u].pod = threads[t].pod

(* C6: when the log fetch or the AI call of an analysis fails, its result is discarded   *)
(* and nothing is written to the cache: the cache after the step that handles the result *)
(* is the cache before it.                                                                *)
C6_FailureNotCached ==
    [][(lastStep'.op = "cache" /\ (lastStep'.fetchFailed \/ lastStep'.aiFailed))
          => analysisCache' = analysisCache]_vars

(* C7: when a refresh is forced for a unit (by the global flag, or by the flag naming the *)
(* unit) the cache is not looked up for it, and the result produced is analysed at least  *)
(* one second later than every result cached for the unit before.                         *)
C7_ForcedRefresh ==
    (lastStep.op = "pod" /\ lastStep.forced)
        => /\ ~lastStep.consulted
           /\ ~lastStep.hit
           /\ lastStep.fetched
           /\ (lastStep.obj # 0 /\ everCachedAt[lastStep.pod] # ZeroTime)
                 => heap[lastStep.obj].AnalyzedAt >= everCachedAt[lastStep.pod] + OneSecond

(* a forced analysis has produced a result although an unexpired entry is in the cache *)
C7_Witness ==
    /\ lastStep.op = "pod"
    /\ lastStep.forced
    /\ lastStep.obj # 0
    /\ everCachedAt[lastStep.pod] # ZeroTime
    /\ lastStep.key \in DOMAIN analysisCache
    /\ lastStep.at <= analysisCache[lastStep.key].ExpiresAt

(* C8: on a cache hit (caching enabled, no forced refresh, an unexpired entry under the   *)
(* unit's current key) no logs are fetched, no method runs and exactly the cached result  *)
(* is reported; when the run before was a hit too, analyzedAt, cachedAt and               *)
(* cacheExpiresAt of what is reported are those reported before.                           *)
C8_CacheHit ==
    [][(lastStep'.op = "pod" /\ lastStep'.hit)
          => /\ CacheEnabledOf(podSleuthSpec[pass.req].LogAnalysis[1])
             /\ ~lastStep'.forced
             /\ ~lastStep'.fetched
             /\ ~lastStep'.ranMethods
             /\ lastStep'.key \in DOMAIN analysisCache
             /\ lastStep'.at <= analysisCache[lastStep'.key].ExpiresAt
             /\ lastStep'.obj = analysisCache[lastStep'.key].Result
             /\ pass'.nonReadyPods[Len(pass'.nonReadyPods)].LogAnalysis = lastStep'.obj
             /\ lastRun'[lastStep'.pod].reported = Timestamps(heap[lastStep'.obj])
             /\ UNCHANGED <<now, heap, analysisCache>>
             /\ lastRun[lastStep'.pod].hit
                   => lastRun'[lastStep'.pod].reported = lastRun[lastStep'.pod].reported]_vars

(* a hit that follows a hit, later than the entry was stored *)
C8_Witness ==
    /\ lastStep.op = "pod"
    /\ lastStep.hit
    /\ lastStep.prevHit
    /\ lastStep.at > analysisCache[lastStep.key].CachedAt

(* C9 as stated: the store stamps a copy: the object passed in is not modified and the *)
(* entry does not refer to it.                                                         *)
C9_PutStampsCopy ==
    (lastStep.op = "cache" /\ lastStep.cacheEnabled)
        => /\ heap[lastStep.obj] = lastStep.passed
           /\ analysisCache[lastStep.key].Result # lastStep.obj

(* C9, amended: the store stamps cachedAt and expiresAt on the object passed in, changes *)
(* no other field of it, and the entry refers to that same object, which is also the one *)
(* reported; without a store the object is reported as it was produced.                  *)
C9_PutStampsInPlace ==
    lastStep.op = "cache"
        => /\ pass.nonReadyPods[Len(pass.nonReadyPods)].LogAnalysis = lastStep.obj
           /\ IF lastStep.cacheEnabled
              THEN /\ analysisCache[lastStep.key].Result = lastStep.obj
                   /\ heap[lastStep.obj] =
                         [lastStep.passed EXCEPT !.CachedAt = lastStep.at,
                                                 !.CacheExpiresAt = <<lastStep.at + lastStep.ttl>>]
              ELSE heap[lastStep.obj] = lastStep.passed

(* a result produced without timestamps of the cache carries them after the store *)
C9_Witness ==
    /\ lastStep.op = "cache"
    /\ lastStep.cacheEnabled
    /\ lastStep.passed.CacheExpiresAt = <<>>
    /\ heap[lastStep.obj].CacheExpiresAt = <<lastStep.at + lastStep.ttl>>
    /\ analysisCache[lastStep.key].Result = lastStep.obj

(* C10: a lookup never changes the cache (an expired entry stays where it is), and a key *)
(* leaves the cache only through a sweep.                                                *)
C10_GetReadOnly ==
    [][/\ lastStep'.op = "get" => analysisCache' = analysisCache
       /\ \A k \in DOMAIN analysisCache :
             k \notin DOMAIN analysisCache' => lastStep'.op = "sweep"]_vars

(* a lookup has missed on an expired entry, which is still in the cache *)
C10_Witness ==
    /\ lastStep.op = "get"
    /\ lastStep.result = 0
    /\ lastStep.key \in DOMAIN analysisCache
    /\ lastStep.at > analysisCache[lastStep.key].ExpiresAt

(* C11: when mergeAnalysisResults is given a pattern verdict and an AI verdict, the AI   *)
(* confidence a selects the result: a > 80 gives the AI root cause and confidence with   *)
(* label "ai"; a < 50 the pattern root cause and confidence with label "pattern"; and    *)
(* 50 <= a <= 80 gives "[Pattern] <p> | [AI] <a>", the mean rounded down and label       *)
(* "pattern+ai" (85/40 gives 85, 30/70 gives 70, 65/55 gives 60).                        *)
C11_MergeByAIConfidence ==
    (lastStep.op = "merge" /\ lastStep.patternResult # <<>> /\ lastStep.aiResult # <<>>)
        => LET p == lastStep.patternResult[1]
               a == lastStep.aiResult[1]
               r == lastStep.result[1]
           IN  /\ lastStep.result # <<>>
               /\ a.Confidence > 80
                     => /\ r.RootCause = a.RootCause
                        /\ r.Confidence = a.Confidence
                        /\ r.Method = "ai"
               /\ a.Confidence < 50
                     => /\ r.RootCause = p.RootCause
                        /\ r.Confidence = p.Confidence
                        /\ r.Method = "pattern"
               /\ (50 <= a.Confidence /\ a.Confidence <= 80)
                     => /\ r.RootCause = "[Pattern] " \o p.RootCause \o " | [AI] " \o a.RootCause
                        /\ 2 * r.Confidence <= p.Confidence + a.Confidence
                        /\ p.Confidence + a.Confidence < 2 * r.Confidence + 2
                        /\ r.Method = "pattern+ai"
               /\ (a.Confidence = 85 /\ p.Confidence = 40) => r.Confidence = 85
               /\ (a.Confidence = 30 /\ p.Confidence = 70) => r.Confidence = 70
               /\ (a.Confidence = 65 /\ p.Confidence = 55) => r.Confidence = 60

(* both verdicts present and the AI confidence on the upper bound of the middle range *)
C11_Witness ==
    /\ lastStep.op = "merge"
    /\ lastStep.patternResult # <<>>
    /\ lastStep.aiResult # <<>>
    /\ lastStep.aiResult[1].Confidence = 80
    /\ lastStep.patternResult[1].Confidence = 55
    /\ lastStep.result[1].Method = "pattern+ai"
    /\ lastStep.result[1].Confidence = 67

(* C12: mergeAnalysisResults given only an AI verdict returns its root cause and         *)
(* confidence with label "ai"; given only a pattern verdict, the pattern's with label    *)
(* "pattern"; given neither it returns nil, whatever the methods and the error lines.    *)
C12_MergeSingleVerdict ==
    lastStep.op = "merge"
        => /\ (lastStep.patternResult = <<>> /\ lastStep.aiResult # <<>>)
                 => /\ lastStep.result # <<>>
                    /\ lastStep.result[1].RootCause = lastStep.aiResult[1].RootCause
                    /\ lastStep.result[1].Confidence = lastStep.aiResult[1].Confidence
                    /\ lastStep.result[1].Method = "ai"
           /\ (lastStep.patternResult # <<>> /\ lastStep.aiResult = <<>>)
                 => /\ lastStep.result # <<>>
                    /\ lastStep.result[1].RootCause = lastStep.patternResult[1].RootCause
                    /\ lastStep.result[1].Confidence = lastStep.patternResult[1].Confidence
                    /\ lastStep.result[1].Method = "pattern"
           /\ (lastStep.patternResult = <<>> /\ lastStep.aiResult = <<>>)
                 => lastStep.result = <<>>

(* no verdict at all, with methods and error lines: nil *)
C12_Witness ==
    /\ lastStep.op = "merge"
    /\ lastStep.patternResult = <<>>
    /\ lastStep.aiResult = <<>>
    /\ lastStep.methods # <<>>
    /\ lastStep.errorLines # <<>>
    /\ lastStep.result = <<>>

(* the analyzeLogs call went through the loop over the methods and has returned *)
AnalysisDone == pass.pc = "done" /\ pass.ran

(* the k-th method of the call was run and returned a verdict without error *)
Usable(k) == pass.steps[k].run /\ ~pass.steps[k].failed /\ pass.steps[k].verdict # <<>>

(* C13 as stated: analyzeLogs returns a result only if at least one method that ran      *)
(* returned a usable verdict; if every method that ran failed, it returns no result.     *)
C13_DiagnosisNeedsUsableVerdict ==
    (AnalysisDone /\ pass.out.result # <<>>) => \E k \in 1..Len(pass.steps) : Usable(k)

(* C14: when the AI method failed in a call where the pattern method ran and returned a  *)
(* verdict, analyzeLogs returns a result with the root cause and the confidence of the   *)
(* pattern verdict, label "pattern", and an aiResult with a non-empty error text.        *)
C14_PatternSurvivesAIFailure ==
    (/\ AnalysisDone
     /\ \E k \in 1..Len(pass.steps) : pass.steps[k].method = "ai" /\ pass.steps[k].failed
     /\ \E k \in 1..Len(pass.steps) : pass.steps[k].method = "pattern" /\ Usable(k))
        => /\ pass.out.err = ""
           /\ pass.out.result # <<>>
           /\ \E k \in 1..Len(pass.steps) :
                 /\ pass.steps[k].method = "pattern"
                 /\ Usable(k)
                 /\ pass.out.result[1].RootCause = pass.steps[k].verdict[1].RootCause
                 /\ pass.out.result[1].Confidence = pass.steps[k].verdict[1].Confidence
           /\ pass.out.result[1].Method = "pattern"
           /\ pass.out.result[1].AIResult # <<>>
           /\ pass.out.result[1].AIResult[1].Error # ""

(* the endpoint answered HTTP 500 before the pattern method matched a rule *)
C14_Witness ==
    /\ AnalysisDone
    /\ pass.methods = <<"ai", "pattern">>
    /\ pass.steps[1].failed
    /\ pass.out.result # <<>>
    /\ pass.out.result[1].Method = "pattern"
    /\ pass.out.result[1].MatchedPattern = ""
    /\ pass.out.result[1].PatternResult[1].MatchedPattern = "ConnectionRefused"
    /\ pass.out.result[1].AIResult[1].Error = "AI analysis failed: AI endpoint returned status 500: boom"

(* the position of the first occurrence of x in s *)
FirstIndex(s, x) == CHOOSE k \in 1..Len(s) : s[k] = x /\ \A m \in 1..(k - 1) : s[m] # x

(* C15: the errorLines of a result are the lines supplied by the methods that ran        *)
(* successfully, in the order the methods ran: each of them once, in the order of their  *)
(* first occurrence; a method that failed supplies no line.                              *)
C15_ErrorLinesUnion ==
    /\ (AnalysisDone /\ pass.out.result # <<>>)
          => LET E == pass.out.result[1].ErrorLines IN
             /\ Range(E) = Range(pass.supplied)
             /\ \A i, j \in 1..Len(E) : i < j =>
                   /\ E[i] # E[j]
                   /\ FirstIndex(pass.supplied, E[i]) < FirstIndex(pass.supplied, E[j])
    /\ pass.pc \in {"methods", "done"} /\ "steps" \in DOMAIN pass
          => \A k \in 1..Len(pass.steps) : pass.steps[k].failed => pass.steps[k].lines = <<>>

(* two methods supplied the same lines, which the result lists once *)
C15_Witness ==
    /\ AnalysisDone
    /\ pass.out.result # <<>>
    /\ Len(pass.steps) = 2
    /\ Usable(1)
    /\ Usable(2)
    /\ pass.steps[1].method # pass.steps[2].method
    /\ Len(pass.out.result[1].ErrorLines) >= 2
    /\ Len(pass.supplied) > Len(pass.out.result[1].ErrorLines)

(* C16 as stated: a result of analyzeLogs has at most 20 errorLines. *)
C16_AtMostTwentyErrorLines ==
    (AnalysisDone /\ pass.out.result # <<>>) => Len(pass.out.result[1].ErrorLines) <= 20

(* the rule matches at least one of the lines *)
MatchesSome(rule, lines) == \E k \in 1..Len(lines) : MatchString(rule.Pattern, lines[k])

(* the lines the rule matches, in their order *)
LinesOf(rule, lines) ==
    LET Matching(line) == MatchString(rule.Pattern, line) IN SelectSeq(lines, Matching)

(* C17 as stated: when the lines contain lines matching a rule R1 and lines matching a   *)
(* rule R2 of the same priority declared after R1 (and no line matching another rule),   *)
(* analyzeWithPatterns reports R1 as matchedPattern whatever the order of the lines, and *)
(* its evidence lines are exactly the lines that match R1.                               *)
C17_FirstDeclaredWins ==
    lastStep.op = "patterns"
        => \A i, j \in 1..Len(lastStep.declared) :
              (/\ i < j
               /\ lastStep.declared[i].Priority = lastStep.declared[j].Priority
               /\ MatchesSome(lastStep.declared[i], lastStep.logLines)
               /\ MatchesSome(lastStep.declared[j], lastStep.logLines)
               /\ \A k \in 1..Len(lastStep.declared) :
                     k \notin {i, j} => ~MatchesSome(lastStep.declared[k], lastStep.logLines))
                 => /\ lastStep.result # <<>>
                    /\ lastStep.result[1].MatchedPattern = lastStep.declared[i].Name
                    /\ lastStep.result[1].ErrorLines
                          = LinesOf(lastStep.declared[i], lastStep.logLines)

(* C18 as stated: when several rules match the lines, the rule that analyzeWithPatterns  *)
(* reports (matchedPattern, priority) is one with the highest priority among all rules   *)
(* that match at least one line.                                                         *)
C18_HighestPriorityWins ==
    (/\ lastStep.op = "patterns"
     /\ \E i, j \in 1..Len(lastStep.declared) :
           /\ i # j
           /\ MatchesSome(lastStep.declared[i], lastStep.logLines)
           /\ MatchesSome(lastStep.declared[j], lastStep.logLines))
        => /\ lastStep.result # <<>>
           /\ \E i \in 1..Len(lastStep.declared) :
                 /\ MatchesSome(lastStep.declared[i], lastStep.logLines)
                 /\ lastStep.result[1].MatchedPattern = lastStep.declared[i].Name
                 /\ lastStep.result[1].Priority = lastStep.declared[i].Priority
                 /\ \A j \in 1..Len(lastStep.declared) :
                       MatchesSome(lastStep.declared[j], lastStep.logLines)
                          => lastStep.declared[j].Priority <= lastStep.declared[i].Priority

(* the number of lines that match at least one of the rules *)
MatchedCount(rules, lines) ==
    LET Matched(line) == \E i \in 1..Len(rules) : MatchString(rules[i].Pattern, line)
    IN  Len(SelectSeq(lines, Matched))

(* C19: calculateAIConfidence returns a confidence in [10,100] for any answer; the       *)
(* confidence of a pattern verdict is 30 for the generic verdict (no line matches a      *)
(* rule) and 50, 65, 80 for 1, 2, 3 or more matched lines; and the confidence of every   *)
(* result of mergeAnalysisResults and of analyzeLogs is in [0,100].                      *)
C19_ConfidenceRanges ==
    /\ lastStep.op = "confidence" => (10 <= lastStep.confidence /\ lastStep.confidence <= 100)
    /\ (lastStep.op = "patterns" /\ lastStep.result # <<>>)
          => LET n == MatchedCount(lastStep.declared, lastStep.logLines) IN
             /\ lastStep.result[1].Confidence \in {30, 50, 65, 80}
             /\ n = 0 <=> lastStep.result[1].Confidence = 30
             /\ n = 1 <=> lastStep.result[1].Confidence = 50
             /\ n = 2 <=> lastStep.result[1].Confidence = 65
             /\ n >= 3 <=> lastStep.result[1].Confidence = 80
    /\ (lastStep.op = "merge" /\ lastStep.result # <<>>)
          => lastStep.result[1].Confidence \in 0..100
    /\ (AnalysisDone /\ pass.out.result # <<>>)
          => pass.out.result[1].Confidence \in 0..100

(* a short, hedged non-answer: the heuristic falls below 10 and is raised to it *)
C19_Witness ==
    /\ lastStep.op = "confidence"
    /\ lastStep.rootCause.length < 20
    /\ lastStep.rootCause.uncertain
    /\ lastStep.rootCause.generic
    /\ lastStep.confidence = 10

(* C20: once analyzeLogs has fetched at least one line, its loop runs every method named *)
(* "pattern" or "ai" of the list, in the order of the list, whether or not an earlier    *)
(* one failed; another name runs nothing, changes no verdict and does not stop the loop; *)
(* a failed method leaves a verdict that carries an error, and analyzeLogs returns no    *)
(* error.                                                                                *)
C20_EveryMethodRuns ==
    [][/\ (pass'.pc = "methods" /\ pass.pc = "methods")
             => LET step == pass'.steps[Len(pass'.steps)] IN
                /\ pass'.i = pass.i + 1
                /\ Len(pass'.steps) = pass.i
                /\ step.method = pass.methods[pass.i]
                /\ step.run <=> step.method \in {"pattern", "ai"}
                /\ ~step.run => pass'.acc = pass.acc
                /\ step.failed => /\ pass'.acc.aiResult # <<>>
                                  /\ pass'.acc.aiResult[1].Error # ""
       /\ (pass'.pc = "done" /\ pass'.ran)
             => /\ Len(pass'.steps) = Len(pass'.methods)
                /\ \A k \in 1..Len(pass'.methods) :
                      /\ pass'.steps[k].method = pass'.methods[k]
                      /\ pass'.steps[k].run <=> pass'.methods[k] \in {"pattern", "ai"}
                /\ pass'.out.err = ""]_vars

(* the first method failed, the second was unknown, and the third still ran *)
C20_Witness ==
    /\ AnalysisDone
    /\ pass.methods = <<"ai", "unknown", "pattern">>
    /\ pass.steps[1].failed
    /\ ~pass.steps[2].run
    /\ pass.steps[3].run
    /\ pass.steps[3].verdict # <<>>
    /\ pass.out.err = ""

---------------------------------------------------------------------------
(* C21: when LogAnalysisConfig.methodConfigs is set, the methods that analyzeLogs runs  *)
(* are the ones it lists, in the listed order.                                           *)
C21_MethodConfigsDecide ==
    (pass.pc = "methods" /\ pass.config.MethodConfigs # <<>>)
        => pass.methods = [k \in 1..Len(pass.config.MethodConfigs) |->
                              pass.config.MethodConfigs[k].Type]

---------------------------------------------------------------------------
(* the primary finding chosen by the precedence of C22 among the findings from the k-th  *)
(* on, cur being <<>> or <<the finding chosen so far>>                                    *)
RECURSIVE PrimaryByPrecedence(_, _, _)
PrimaryByPrecedence(findings, k, cur) ==
    IF k > Len(findings) THEN cur
    ELSE PrimaryByPrecedence(findings, k + 1,
            IF cur = <<>> THEN <<findings[k]>>
            ELSE IF findings[k].Type = "initContainer" THEN cur
            ELSE IF findings[k].State = "waiting" /\ cur[1].State # "waiting" THEN <<findings[k]>>
            ELSE IF findings[k].State = "terminated" /\ cur[1].Reason = "ReadinessProbeFailed"
            THEN <<findings[k]>>
            ELSE cur)

(* C22: the primary reason and message of investigatePodFailure are those of the first   *)
(* finding, replaced afterwards only by a later waiting finding when the chosen one is   *)
(* not from a waiting container, or by a later terminated finding when the chosen reason *)
(* is ReadinessProbeFailed; an init container's finding is chosen only if none was.      *)
C22_PrimaryPrecedence ==
    (lastStep.op = "investigate" /\ lastStep.found.containerErrors # <<>>)
        => /\ lastStep.found.primaryReason =
                PrimaryByPrecedence(lastStep.found.containerErrors, 1, <<>>)[1].Reason
           /\ lastStep.found.primaryMessage =
                PrimaryByPrecedence(lastStep.found.containerErrors, 1, <<>>)[1].Message

---------------------------------------------------------------------------
(* the status that a finding of investigatePodFailure(pod) was built from *)
StatusNamed(pod, name) ==
    CHOOSE cs \in Range(pod.Status.ContainerStatuses) \cup Range(pod.Status.InitContainerStatuses) :
        cs.Name = name

(* the current state or the last termination of the container has a reason *)
ReasonSupplied(cs) ==
    \/ cs.State.Waiting # <<>> /\ cs.State.Waiting[1].Reason # ""
    \/ cs.State.Terminated # <<>> /\ cs.State.Terminated[1].Reason # ""
    \/ cs.State.Waiting = <<>> /\ cs.State.Terminated = <<>> /\ cs.State.Running # <<>> /\ ~cs.Ready
    \/ cs.LastTerminationState.Terminated # <<>> /\ cs.LastTerminationState.Terminated[1].Reason # ""

(* C23: every finding returned by investigatePodFailure has a non-empty reason; when     *)
(* neither the current state nor the last termination has one, the reason is             *)
(* ContainerTerminated for a terminated container, ContainerWaiting for a waiting one    *)
(* and ContainerNotReady otherwise; a terminated container with a reason and an empty    *)
(* message gets "Container terminated with reason '<reason>' (exit code: <n>)".          *)
C23_FindingsHaveReason ==
    lastStep.op = "investigate" =>
        \A k \in 1..Len(lastStep.found.containerErrors) :
            /\ lastStep.found.containerErrors[k].Reason # ""
            /\ ~ReasonSupplied(StatusNamed(lastStep.pod, lastStep.found.containerErrors[k].ContainerName))
                 => lastStep.found.containerErrors[k].Reason =
                        (IF lastStep.found.containerErrors[k].State = "terminated"
                         THEN "ContainerTerminated"
                         ELSE IF lastStep.found.containerErrors[k].State = "waiting"
                         THEN "ContainerWaiting"
                         ELSE "ContainerNotReady")
            /\ \A t \in Range(StatusNamed(lastStep.pod,
                                lastStep.found.containerErrors[k].ContainerName).State.Terminated) :
                  (t.Reason # "" /\ t.Message = "")
                      => /\ lastStep.found.containerErrors[k].Reason = t.Reason
                         /\ lastStep.found.containerErrors[k].Message =
                                "Container terminated with reason '" \o t.Reason
                                    \o "' (exit code: " \o ToString(t.ExitCode) \o ")"

(* the scenario of the OOMKilled container, next to a container without any state *)
C23_Witness ==
    /\ lastStep.op = "investigate"
    /\ lastStep.pod.Status.ContainerStatuses =
          << DetailedStatus("app", FALSE, StateTerminated("OOMKilled", "", 137), NoState),
             DetailedStatus("sidecar", FALSE, NoState, NoState) >>
    /\ Len(lastStep.found.containerErrors) = 2
    /\ lastStep.found.containerErrors[1].Reason = "OOMKilled"
    /\ lastStep.found.containerErrors[1].Message =
          "Container terminated with reason 'OOMKilled' (exit code: 137)"
    /\ lastStep.found.containerErrors[2].Reason = "ContainerNotReady"
    /\ lastStep.found.primaryReason = "OOMKilled"

---------------------------------------------------------------------------
(* a result of mergeAnalysisResults that combines the two verdicts *)
Combined(r) == r.Method = "pattern+ai"

(* a verdict, <<>> or <<v>>, that carries an error *)
CarriesError(v) == v # <<>> /\ v[1].Error # ""

---------------------------------------------------------------------------
(* the positions of the statuses of the containers that are waiting or terminated, of *)
(* those that are not ready, and the name at the first position of a set              *)
WaitingOrTerminated(statuses) ==
    { k \in 1..Len(statuses) :
        statuses[k].State.Waiting # <<>> \/ statuses[k].State.Terminated # <<>> }

NotReady(statuses) == { k \in 1..Len(statuses) : ~statuses[k].Ready }

FirstOf(statuses, K) == statuses[CHOOSE k \in K : \A m \in K : k <= m].Name

---------------------------------------------------------------------------
(* the step removes annotation a from PodSleuth g *)
Removed(g, a) == a \in DOMAIN annotations[g] /\ a \notin DOMAIN annotations'[g]

(* C26: a force-refresh annotation is removed from a PodSleuth only by the Reconcile call *)
(* that read that same annotation when it started: the global one only if the call read  *)
(* it, the pod one only if the call read the value it has now; an annotation that the    *)
(* dashboard set or replaced while the call was in flight stays.                          *)
C26_RemovedOnlyIfRead ==
    [][\A g \in DOMAIN annotations :
          /\ Removed(g, AnnForceRefresh) => (pass.req = g /\ pass.globalForceRefresh)
          /\ Removed(g, AnnForceRefreshPod)
                => (pass.req = g /\ pass.targetForcePod = annotations[g][AnnForceRefreshPod])]_vars

---------------------------------------------------------------------------
(* pod p is not ready and the cache holds an unexpired entry under its current key *)
CachedNow(cache, p) ==
    ~isPodReady(PodNow(p)) /\ getCachedAnalysis(cache, PodNow(p), now).result # 0

(* C27: the cleanup at the end of a Reconcile call for one PodSleuth never deletes the    *)
(* unexpired entry of a pod that is not ready, has not restarted and is selected only by  *)
(* another PodSleuth: the entry is still there for that pod's next lookup.                *)
C27_SweepSparesOtherGroups ==
    [][lastStep'.op = "cleanup" =>
          \A p \in DOMAIN pods :
              (/\ \A n \in 1..Len(pass.podList) : pass.podList[n].id # p
               /\ CachedNow(analysisCache, p))
                  => CachedNow(analysisCache', p)]_vars

(* C28: once a Reconcile call has run a forced analysis of a pod, a later cache hit for   *)
(* that pod never reports a result that was cached before the forced analysis, whatever   *)
(* the forced analysis returned.                                                          *)
C28_NoStaleAfterForce ==
    (lastStep.op = "pod" /\ lastStep.hit /\ lastRun[lastStep.pod].forcedAt # ZeroTime)
        => heap[lastStep.obj].CachedAt >= lastRun[lastStep.pod].forcedAt

---------------------------------------------------------------------------
(* C29: a Reconcile call removes force-refresh annotations only in its last step, which   *)
(* it reaches only after its status update succeeded; a call whose r.List or whose status *)
(* update fails ends there and leaves the annotations as they are, and the next call      *)
(* reads them again.                                                                      *)
C29_SignalsKeptOnFailure ==
    [][/\ (\E g \in DOMAIN annotations, a \in {AnnForceRefresh, AnnForceRefreshPod} : Removed(g, a))
            => pass.pc = "clear"
       /\ (pass.pc # "clear" /\ pass'.pc = "clear")
            => (pass.pc = "status" /\ lastStep'.op = "status" /\ lastStep'.ok)
       /\ (lastStep'.op \in {"list", "status"} /\ ~lastStep'.ok)
            => (annotations' = annotations /\ pass' = IdlePass)
       /\ (pass.pc = "idle" /\ pass'.pc = "pods")
            => /\ pass'.globalForceRefresh = (AnnForceRefresh \in DOMAIN annotations[pass'.req])
               /\ pass'.targetForcePod # ""
                    <=> AnnForceRefreshPod \in DOMAIN annotations[pass'.req]]_vars

(* the status update of a call that ran a forced analysis has failed: the annotation it *)
(* read is still there                                                                   *)
C29_Witness ==
    /\ lastStep.op = "status"
    /\ ~lastStep.ok
    /\ pass = IdlePass
    /\ AnnForceRefresh \in DOMAIN annotations[lastStep.req]
    /\ \E p \in DOMAIN pods : lastRun[p].forcedAt = now

(* C30: right after the cleanup of a Reconcile call, every entry the call stored is still *)
(* in the cache, and every key of the cache is the current key of a pod of the call's     *)
(* list that is not ready.                                                                *)
C30_OwnSweep ==
    lastStep.op = "cleanup" =>
        /\ lastStep.stored \subseteq DOMAIN analysisCache
        /\ DOMAIN analysisCache \subseteq
              { getCacheKey(PodNow(pass.podList[n].id)) :
                  n \in { m \in 1..Len(pass.podList) : ~isPodReady(PodNow(pass.podList[m].id)) } }

(* the call stored an entry and its cleanup removed the entry of an earlier restart count *)
C30_Witness ==
    /\ lastStep.op = "cleanup"
    /\ lastStep.stored # {}
    /\ lastStep.before \ DOMAIN analysisCache # {}
    /\ lastStep.stored \subseteq DOMAIN analysisCache

====
